---- MODULE Spec2Model ----
(***************************************************************************)
(* Model of the Command Monitor of src/terminal/command_monitor.rs: the    *)
(* registry of monitored commands, command validation, the execution of a  *)
(* command (record, output file, process, stream readers, exit-wait task)  *)
(* and the termination of a running command.                               *)
(*                                                                         *)
(* Strings are sequences of one-character strings, so that trim,           *)
(* to_lowercase, contains, starts_with and replace are computed character  *)
(* by character as the Rust standard library computes them.                *)
(* Option<T> is a sequence: <<>> is None and <<v>> is Some(v).             *)
(* CommandStatus is <<"Running">>, <<"Completed">> or <<"Failed", reason>>.*)
(***************************************************************************)
EXTENDS Integers, Sequences, FiniteSets, TLC

\* ------------------------------------------------------------------ bounds

\* Most execute_command calls that pass validation (records in the registry).
MaxCommands == 2
\* Most pieces concatenated into a command line (validation specification).
MaxPieces == 3
\* Most output events on the output channel.
MaxEvents == 1

\* Most output lines the processes emit (analyzer specification).
MaxLines == 2

\* Most findings sent to Auto-Documentation (documentation specification).
MaxFindings == 2

\* Most actions attached to findings by add_follow_up_to_finding.
MaxAttached == 2

\* Most actions enqueued for the Action Executor.
MaxActions == 5
MaxEmitted == 3

\* ------------------------------------------------------------ string model

lower_letters ==
    <<"a","b","c","d","e","f","g","h","i","j","k","l","m",
      "n","o","p","q","r","s","t","u","v","w","x","y","z">>

upper_letters ==
    <<"A","B","C","D","E","F","G","H","I","J","K","L","M",
      "N","O","P","Q","R","S","T","U","V","W","X","Y","Z">>

\* char::is_whitespace, on the characters the model uses.
IsWhitespace(c) == c \in {" ", "\t", "\n"}

\* char::to_lowercase, on ASCII.
LowerChar(c) ==
    IF \E i \in DOMAIN upper_letters : upper_letters[i] = c
    THEN lower_letters[CHOOSE i \in DOMAIN upper_letters : upper_letters[i] = c]
    ELSE c

\* str::to_lowercase
RECURSIVE ToLower(_)
ToLower(s) ==
    IF s = <<>> THEN <<>> ELSE <<LowerChar(s[1])>> \o ToLower(Tail(s))

\* str::starts_with
StartsWith(s, p) == Len(p) <= Len(s) /\ SubSeq(s, 1, Len(p)) = p

\* str::contains
Contains(s, p) ==
    \E i \in 0..(Len(s) - Len(p)) : SubSeq(s, i + 1, i + Len(p)) = p

\* str::replace: every non-overlapping match, left to right.
RECURSIVE Replace(_, _, _)
Replace(s, from, to) ==
    IF Len(s) < Len(from) THEN s
    ELSE IF SubSeq(s, 1, Len(from)) = from
         THEN to \o Replace(SubSeq(s, Len(from) + 1, Len(s)), from, to)
         ELSE <<s[1]>> \o Replace(Tail(s), from, to)

RECURSIVE TrimStart(_)
TrimStart(s) ==
    IF s # <<>> /\ IsWhitespace(s[1]) THEN TrimStart(Tail(s)) ELSE s

RECURSIVE TrimEnd(_)
TrimEnd(s) ==
    IF s # <<>> /\ IsWhitespace(s[Len(s)])
    THEN TrimEnd(SubSeq(s, 1, Len(s) - 1)) ELSE s

\* str::trim
Trim(s) == TrimEnd(TrimStart(s))

\* ------------------------------------------------- validate_and_fix_command

explanatory_markers ==
    << <<"t","r","y"," ","t","h","i","s">>,
       <<"t","h","i","s"," ","w","i","l","l">>,
       <<"c","o","m","m","a","n","d",":">>,
       <<"r","u","n"," ","t","h","i","s">>,
       <<"e","x","e","c","u","t","i","n","g",":">>,
       <<"s","c","a","n"," ","j","u","s","t">>,
       <<"l","a","y"," ","o","f"," ","t","h","e"," ","l","a","n","d">>,
       <<"s","c","a","n"," ","f","i","n","i","s","h","e","s">>,
       <<"t","e","l","l"," ","m","e"," ","w","h","a","t">>,
       <<"w","e"," ","c","a","n">>,
       <<"y","o","u"," ","c","a","n">>,
       <<"l","e","t","'","s">>,
       <<"w","h","i","l","e"," ","t","h","a","t","'","s">>,
       <<"o","n","c","e"," ","t","h","e">>,
       <<"g","e","t"," ","a">>,
       <<"g","i","v","e","s"," ","u","s">>,
       <<"l","e","t"," ","m","e"," ","k","n","o","w">>,
       <<"e","x","e","c","u","t","e"," ","t","h","i","s">>,
       <<"w","e","'","l","l">>,
       <<"y","o","u","'","l","l">>,
       <<"f","i","n","i","s","h","e","d">>,
       <<"f","i","n","i","s","h","e","s">>,
       <<"l","o","o","k"," ","f","o","r">>,
       <<"f","i","n","d"," ","o","u","t">> >>

target_patterns ==
    { <<".","c","o","m">>,
      <<".","n","e","t">>,
      <<".","o","r","g">>,
      <<".","e","d","u">>,
      <<".","g","o","v">>,
      <<".","i","o">>,
      <<".","c","o">>,
      <<" ","l","o","c","a","l","h","o","s","t">>,
      <<" ","1","2","7",".","0",".","0",".","1">>,
      <<" ","1","0",".">>,
      <<" ","1","9","2",".","1","6","8",".">>,
      <<" ","1","7","2",".">> }

common_tools ==
    << <<"n","m","a","p">>,
       <<"d","i","g">>,
       <<"w","h","o","i","s">>,
       <<"p","i","n","g">>,
       <<"t","r","a","c","e","r","o","u","t","e">>,
       <<"g","o","b","u","s","t","e","r">>,
       <<"f","f","u","f">>,
       <<"d","i","r","b">> >>

str_nmap == <<"n","m","a","p">>
str_sudo_sp == <<"s","u","d","o"," ">>
str_sudo_nmap == <<"s","u","d","o"," ","n","m","a","p">>
flag_sS == <<" ","-","s","S">>
flag_sT == <<" ","-","s","T">>
flag_sU == <<" ","-","s","U">>
flag_sN == <<" ","-","s","N">>
flag_sF == <<" ","-","s","F">>
flag_sX == <<" ","-","s","X">>

\* What running `which <tool>` can give: the tool is found, the tool is not
\* found, or `which` itself cannot be run.
WhichOutcomes == {"installed", "missing", "which_failed"}

\* HasExplanatoryMarker comparing case-sensitively (to_lowercase forgotten).
HasExplanatoryMarkerCaseSensitive(fixed_command) ==
    \E k \in DOMAIN explanatory_markers :
        Contains(fixed_command, explanatory_markers[k])

\* Lines 277-281: the first marker contained in the lower-cased command.
HasExplanatoryMarker(fixed_command) ==
    \E lowered \in {ToLower(fixed_command)} :
        \E k \in DOMAIN explanatory_markers :
            Contains(lowered, explanatory_markers[k])

\* Lines 286-289: -sS is replaced by -sT unless the command starts with sudo.
FixSynScan(command) ==
    IF /\ Contains(command, str_nmap)
       /\ Contains(command, flag_sS)
       /\ ~StartsWith(command, str_sudo_sp)
    THEN Replace(command, flag_sS, flag_sT)
    ELSE command

\* Lines 292-297: the other scans that need privileges.
NeedsPrivileges(command) ==
    /\ Contains(command, str_nmap)
    /\ \/ Contains(command, flag_sU)
       \/ Contains(command, flag_sN)
       \/ Contains(command, flag_sF)
       \/ Contains(command, flag_sX)
    /\ ~StartsWith(command, str_sudo_sp)

\* Lines 300-310: an nmap command with none of the target patterns.
MissingTarget(fixed_command) ==
    /\ \/ StartsWith(fixed_command, str_nmap)
       \/ StartsWith(fixed_command, str_sudo_nmap)
    /\ \A p \in target_patterns : ~Contains(fixed_command, p)

\* Lines 313-325: the command starts with one of the common tools (or with
\* sudo and the tool), so `which` is run for it.
UsesCommonTool(fixed_command) ==
    \E k \in DOMAIN common_tools :
        \/ StartsWith(fixed_command, common_tools[k])
        \/ StartsWith(fixed_command, str_sudo_sp \o common_tools[k])

\* validate_and_fix_command(command), `which` being the outcome of the
\* `which` runs it makes: <<"Ok", fixed_command>> or <<"Err", message>>.
validate_and_fix_command(raw, which) ==
    LET command == Trim(raw)
        fixed_command == FixSynScan(command)
    IN  IF command = <<>> THEN <<"Err", "Empty command">>
        ELSE IF HasExplanatoryMarker(command)
        THEN <<"Err", "This appears to be explanatory text, not a command">>
        ELSE IF NeedsPrivileges(command)
        THEN <<"Err", "This scan type requires root privileges">>
        ELSE IF MissingTarget(fixed_command)
        THEN <<"Err", "Nmap command appears to be missing a valid target">>
        ELSE IF UsesCommonTool(fixed_command) /\ which = "which_failed"
        THEN <<"Err", "Failed to check if tool is installed">>
        ELSE IF UsesCommonTool(fixed_command) /\ which = "missing"
        THEN <<"Err", "Tool is not installed or not in PATH">>
        ELSE <<"Ok", fixed_command>>

\* ----------------------------------------------- regular-expression helpers

digits == <<"0","1","2","3","4","5","6","7","8","9">>

\* \d, on ASCII
IsDigit(c) == \E i \in DOMAIN digits : digits[i] = c

\* The characters of \d, \w, [\w-] and \s.
DigitChars == {digits[i] : i \in DOMAIN digits}
WordChars ==
    DigitChars \cup {"_"} \cup {lower_letters[i] : i \in DOMAIN lower_letters}
               \cup {upper_letters[i] : i \in DOMAIN upper_letters}
WordOrDashChars == WordChars \cup {"-"}
SpaceChars == {" ", "\t", "\n"}

\* The end of the longest run of characters of the class that starts at
\* position i of s (i - 1 when s[i] is not of the class): what a greedy
\* repetition of the class consumes.
RECURSIVE RunEnd(_, _, _)
RunEnd(s, i, class) ==
    IF i <= Len(s) /\ s[i] \in class THEN RunEnd(s, i + 1, class) ELSE i - 1

\* The same for the characters outside the class (\S for \s).
RECURSIVE RunEndOutside(_, _, _)
RunEndOutside(s, i, class) ==
    IF i <= Len(s) /\ s[i] \notin class THEN RunEndOutside(s, i + 1, class)
    ELSE i - 1

\* The literal p stands at position i of s.
MatchesAt(s, i, p) ==
    /\ i >= 1
    /\ i + Len(p) - 1 <= Len(s)
    /\ SubSeq(s, i, i + Len(p) - 1) = p

\* format!("{}", n) for a natural number
RECURSIVE Decimal(_)
Decimal(n) ==
    IF n < 10 THEN <<digits[n + 1]>>
    ELSE Decimal(n \div 10) \o <<digits[(n % 10) + 1]>>

\* [String]::join(sep)
RECURSIVE Join(_, _)
Join(ss, sep) ==
    IF ss = <<>> THEN <<>>
    ELSE IF Len(ss) = 1 THEN ss[1]
    ELSE ss[1] \o sep \o Join(Tail(ss), sep)

\* str::lines: the text between line feeds; a final line feed ends the last
\* line and starts no further one.
RECURSIVE Lines(_)
Lines(s) ==
    IF s = <<>> THEN <<>>
    ELSE LET k == RunEndOutside(s, 1, {"\n"})
         IN  IF k >= Len(s) - 1 THEN <<SubSeq(s, 1, k)>>
             ELSE <<SubSeq(s, 1, k)>> \o Lines(SubSeq(s, k + 2, Len(s)))

\* ------------------------------------------------- OutputAnalyzer: analysis

str_tcp == <<"/","t","c","p">>
str_udp == <<"/","u","d","p">>
str_open == <<"o","p","e","n">>

\* A match of (\d+)/(?:tcp|udp)\s+open\s+(\S+) that starts at position i of
\* the line: <<port, service>>, or <<>> when there is none. Each greedy run
\* is followed by a character outside its class, so no shorter run matches.
PortMatchAt(line, i) ==
    LET d == RunEnd(line, i, DigitChars)
        w == RunEnd(line, d + 5, SpaceChars)
        v == RunEnd(line, w + 5, SpaceChars)
        e == RunEndOutside(line, v + 1, SpaceChars)
    IN  IF /\ d >= i
           /\ MatchesAt(line, d + 1, str_tcp) \/ MatchesAt(line, d + 1, str_udp)
           /\ w >= d + 5
           /\ MatchesAt(line, w + 1, str_open)
           /\ v >= w + 5
           /\ e >= v + 1
        THEN <<SubSeq(line, i, d), SubSeq(line, v + 1, e)>>
        ELSE <<>>

\* The leftmost match that starts at position i or later.
RECURSIVE PortCapturesFrom(_, _)
PortCapturesFrom(line, i) ==
    IF i > Len(line) THEN <<>>
    ELSE IF PortMatchAt(line, i) # <<>> THEN PortMatchAt(line, i)
    ELSE PortCapturesFrom(line, i + 1)

\* pattern.captures(line) for the first port pattern: the leftmost match.
PortCaptures(line) == PortCapturesFrom(line, 1)

\* Lines 153-171: open_ports. The second port pattern (the PORT STATE SERVICE
\* header) has no capture group, so captures.len() is 1 and it adds nothing.
RECURSIVE OpenPorts(_)
OpenPorts(lines) ==
    IF lines = <<>> THEN <<>>
    ELSE (IF PortCaptures(lines[1]) = <<>> THEN <<>> ELSE <<PortCaptures(lines[1])>>)
         \o OpenPorts(Tail(lines))

\* Lines 177-183: "Port {}" or "Port {} ({})"
PortText(open_port) ==
    IF open_port[2] = <<>> THEN <<"P","o","r","t"," ">> \o open_port[1]
    ELSE <<"P","o","r","t"," ">> \o open_port[1] \o <<" ","(">> \o open_port[2] \o <<")">>

RECURSIVE PortTexts(_)
PortTexts(open_ports) ==
    IF open_ports = <<>> THEN <<>>
    ELSE <<PortText(open_ports[1])>> \o PortTexts(Tail(open_ports))

\* Lines 176-185: port_list
PortList(open_ports) == Join(PortTexts(open_ports), <<","," ">>)

\* create_finding leaving the command_id of the finding empty.
create_finding_unowned(title, description, severity, command_id, raw_output) ==
    [ title |-> title,
      description |-> description,
      severity |-> severity,
      command_id |-> 0,
      raw_output |-> raw_output ]

\* create_finding (command_monitor.rs 546-562); the random id and the
\* timestamp, which nothing compares, are left out.
create_finding(title, description, severity, command_id, raw_output) ==
    [ title |-> title,
      description |-> description,
      severity |-> severity,
      command_id |-> command_id,
      raw_output |-> raw_output ]

title_open_ports == <<"O","p","e","n"," ","P","o","r","t","s"," ","D","e","t","e","c","t","e","d">>
title_subdomains == <<"S","u","b","d","o","m","a","i","n","s"," ","D","i","s","c","o","v","e","r","e","d">>

\* analyze_port_scan(context, command_id): the findings it adds, each with
\* the summary it then stores for the command.
analyze_port_scan(context, command_id) ==
    LET open_ports == OpenPorts(Lines(context))
    IN  IF open_ports = <<>> THEN <<>>
        ELSE << [ finding |->
                    create_finding(
                        title_open_ports,
                        <<"T","h","e"," ","f","o","l","l","o","w","i","n","g"," ","p","o","r","t","s"," ","w","e","r","e"," ","f","o","u","n","d"," ","o","p","e","n",":"," ">>
                            \o PortList(open_ports),
                        "Info", command_id, context),
                  summary |->
                    <<<<"D","e","t","e","c","t","e","d"," ">> \o Decimal(Len(open_ports))
                        \o <<" ","o","p","e","n"," ","p","o","r","t","s",":"," ">> \o PortList(open_ports)>> ] >>

\* The characters of the model in the order of their code points, by which
\* strings are sorted.
code_order ==
    <<"\t", "\n", " ", "'", "(", ")", ",", "-", ".", "/">> \o digits
    \o <<":">> \o upper_letters \o <<"_">> \o lower_letters

CodeOf(c) == CHOOSE i \in DOMAIN code_order : code_order[i] = c

\* a < b for strings (Ord for str: byte-wise, a proper prefix first).
RECURSIVE StrLess(_, _)
StrLess(a, b) ==
    IF b = <<>> THEN FALSE
    ELSE IF a = <<>> THEN TRUE
    ELSE IF a[1] # b[1] THEN CodeOf(a[1]) < CodeOf(b[1])
    ELSE StrLess(Tail(a), Tail(b))

\* v.sort(); v.dedup(): the distinct elements in ascending order.
SortDedup(v) ==
    LET S == {v[i] : i \in DOMAIN v}
    IN  CHOOSE f \in [1..Cardinality(S) -> S] :
            \A i, j \in 1..Cardinality(S) : i < j => StrLess(f[i], f[j])

\* A match of (\S+\.[\w-]+\.\w+) that starts at position i of the line, for
\* the first dot at position p: the position where the match ends, 0 when
\* there is no such match.
SubdomainEnd(line, i, p) ==
    LET r == RunEnd(line, p + 1, WordOrDashChars)
    IN  IF /\ line[p] = "."
           /\ r >= p + 1
           /\ r + 2 <= Len(line)
           /\ line[r + 1] = "."
           /\ line[r + 2] \in WordChars
        THEN RunEnd(line, r + 2, WordChars)
        ELSE 0

\* The text the second subdomain pattern captures when its match starts at
\* position i, <<>> when none starts there: the greedy \S+ gives up as few
\* characters as possible, so the first dot is the last one that will do.
RECURSIVE SubdomainMatchDown(_, _, _)
SubdomainMatchDown(line, i, p) ==
    IF p <= i THEN <<>>
    ELSE IF SubdomainEnd(line, i, p) # 0
    THEN SubSeq(line, i, SubdomainEnd(line, i, p))
    ELSE SubdomainMatchDown(line, i, p - 1)

SubdomainMatchAt(line, i) ==
    SubdomainMatchDown(line, i, RunEndOutside(line, i, SpaceChars))

\* The leftmost match that starts at position i or later.
RECURSIVE SubdomainCapturesFrom(_, _)
SubdomainCapturesFrom(line, i) ==
    IF i > Len(line) THEN <<>>
    ELSE IF SubdomainMatchAt(line, i) # <<>> THEN SubdomainMatchAt(line, i)
    ELSE SubdomainCapturesFrom(line, i + 1)

\* pattern.captures(line) for the second subdomain pattern: the leftmost match.
SubdomainCaptures(line) == SubdomainCapturesFrom(line, 1)

\* Lines 307-309: the filter on a captured text.
IsSubdomain(subdomain_str) ==
    /\ Contains(subdomain_str, <<".">>)
    /\ ~StartsWith(subdomain_str, <<"w","w","w",".">>)
    /\ ~Contains(subdomain_str, <<":","/","/">>)

\* Lines 297-316: subdomains, before sort and dedup. What the first pattern
\* (found N subdomains) captures is a number, which the filter rejects.
RECURSIVE Subdomains(_)
Subdomains(lines) ==
    IF lines = <<>> THEN <<>>
    ELSE (IF SubdomainCaptures(lines[1]) # <<>> /\ IsSubdomain(SubdomainCaptures(lines[1]))
          THEN <<SubdomainCaptures(lines[1])>> ELSE <<>>)
         \o Subdomains(Tail(lines))

\* iter().take(n)
Take(v, n) == IF Len(v) <= n THEN v ELSE SubSeq(v, 1, n)

\* analyze_subdomains(context, command_id): as analyze_port_scan.
analyze_subdomains(context, command_id) ==
    LET found == Subdomains(Lines(context))
    IN  IF found = <<>> THEN <<>>
        ELSE LET subdomains == SortDedup(found)
                 additional ==
                     IF Len(subdomains) > 10
                     THEN <<" ","a","n","d"," ">> \o Decimal(Len(subdomains) - 10) \o <<" ","m","o","r","e">>
                     ELSE <<>>
             IN << [ finding |->
                       create_finding(
                           title_subdomains,
                           <<"D","i","s","c","o","v","e","r","e","d"," ">> \o Decimal(Len(subdomains))
                               \o <<" ","s","u","b","d","o","m","a","i","n","s",":"," ">>
                               \o Join(Take(subdomains, 10), <<","," ">>) \o additional,
                           "Info", command_id, Join(subdomains, <<"\n">>)),
                     summary |->
                       <<<<"D","i","s","c","o","v","e","r","e","d"," ">> \o Decimal(Len(subdomains))
                           \o <<" ","s","u","b","d","o","m","a","i","n","s">>>> ] >>

\* The output lines of the processes.
line_80 == <<"8","0","/","t","c","p"," ","o","p","e","n"," ","h","t","t","p">>
line_443 == <<"4","4","3","/","t","c","p"," ","o","p","e","n"," ","h","t","t","p","s">>
line_dev == <<"d","e","v",".","e","x","a","m","p","l","e",".","c","o","m">>
OutputLines == {line_80, line_443, line_dev}

None == <<>>
Some(v) == <<v>>

\* ------------------------------------------ AutoDocumentation: pure part

\* [a-zA-Z0-9] and [-a-zA-Z0-9]
AlnumChars == WordChars \ {"_"}
AlnumOrDashChars == AlnumChars \cup {"-"}

\* [\d\.]
DigitOrDotChars == DigitChars \cup {"."}

str_port_sp == <<"P","o","r","t"," ">>

\* Lines 174-181: the texts the group of "Port (\d+)" captures in the
\* successive matches of captures_iter, the search going on after each match.
RECURSIVE PortNumbersFrom(_, _)
PortNumbersFrom(description, i) ==
    IF i > Len(description) THEN <<>>
    ELSE IF /\ MatchesAt(description, i, str_port_sp)
            /\ RunEnd(description, i + 5, DigitChars) >= i + 5
    THEN <<SubSeq(description, i + 5, RunEnd(description, i + 5, DigitChars))>>
         \o PortNumbersFrom(description, RunEnd(description, i + 5, DigitChars) + 1)
    ELSE PortNumbersFrom(description, i + 1)

PortNumbers(description) == PortNumbersFrom(description, 1)

\* str::split_whitespace
RECURSIVE SplitWhitespace(_)
SplitWhitespace(s) ==
    LET t == TrimStart(s)
        e == RunEndOutside(t, 1, SpaceChars)
    IN  IF t = <<>> THEN <<>>
        ELSE <<SubSeq(t, 1, e)>> \o SplitWhitespace(SubSeq(t, e + 1, Len(t)))

\* (?:\.[a-zA-Z0-9]+)*$ with the first label: from position i on, the term
\* is labels of letters and digits separated by single dots.
RECURSIVE DomainLabels(_, _)
DomainLabels(term, i) ==
    LET e == RunEnd(term, i, AlnumChars)
    IN  /\ e >= i
        /\ \/ e = Len(term)
           \/ term[e + 1] = "." /\ DomainLabels(term, e + 2)

\* Line 469: domain_pattern.is_match(term). The run of [-a-zA-Z0-9] holds no
\* dot, so the dot of the pattern is the first dot of the term.
DomainMatch(term) ==
    /\ term # <<>>
    /\ term[1] \in AlnumChars
    /\ LET a == RunEnd(term, 2, AlnumOrDashChars)
       IN  /\ a + 1 <= Len(term)
           /\ term[a + 1] = "."
           /\ DomainLabels(term, a + 2)

\* n groups of one to three digits separated by dots, from position i to the
\* end of the term.
RECURSIVE IpGroups(_, _, _)
IpGroups(term, i, n) ==
    LET e == RunEnd(term, i, DigitChars)
    IN  /\ e >= i
        /\ e - i + 1 <= 3
        /\ IF n = 1 THEN e = Len(term)
           ELSE /\ e + 1 <= Len(term)
                /\ term[e + 1] = "."
                /\ IpGroups(term, e + 2, n - 1)

\* Line 470: ip_pattern.is_match(term)
IpMatch(term) == IpGroups(term, 1, 4)

\* Lines 472-478 without .rev(): the first term that matches.
RECURSIVE FirstTarget(_, _)
FirstTarget(terms, k) ==
    IF terms = <<>> THEN None
    ELSE IF DomainMatch(terms[1]) \/ IpMatch(terms[1]) THEN Some(terms[1])
    ELSE FirstTarget(Tail(terms), k)

\* Lines 472-478: the last of the first k terms that matches.
RECURSIVE LastTarget(_, _)
LastTarget(terms, k) ==
    IF k = 0 THEN None
    ELSE IF DomainMatch(terms[k]) \/ IpMatch(terms[k]) THEN Some(terms[k])
    ELSE LastTarget(terms, k - 1)

\* extract_target_from_command(command): Option<String>
extract_target_from_command(command) ==
    LastTarget(SplitWhitespace(command), Len(SplitWhitespace(command)))

str_version_sp == <<" ","v","e","r","s","i","o","n"," ">>

\* A match of (\w+) version ([\d\.]+) that starts at position i:
\* <<software, version>>, or <<>>.
VersionMatchAt(description, i) ==
    LET w == RunEnd(description, i, WordChars)
        v == RunEnd(description, w + 10, DigitOrDotChars)
    IN  IF /\ w >= i
           /\ MatchesAt(description, w + 1, str_version_sp)
           /\ v >= w + 10
        THEN <<SubSeq(description, i, w), SubSeq(description, w + 10, v)>>
        ELSE <<>>

RECURSIVE VersionCapturesFrom(_, _)
VersionCapturesFrom(description, i) ==
    IF i > Len(description) THEN <<>>
    ELSE IF VersionMatchAt(description, i) # <<>> THEN VersionMatchAt(description, i)
    ELSE VersionCapturesFrom(description, i + 1)

\* Line 244: version_pattern.captures(&finding.description)
VersionCaptures(description) == VersionCapturesFrom(description, 1)

str_cve_dash == <<"C","V","E","-">>

\* A match of (CVE-\d{4}-\d{4,7}) that starts at position i: its text, or <<>>.
CveMatchAt(description, i) ==
    LET y == RunEnd(description, i + 4, DigitChars)
        n == RunEnd(description, i + 9, DigitChars)
    IN  IF /\ MatchesAt(description, i, str_cve_dash)
           /\ y >= i + 7
           /\ i + 8 <= Len(description)
           /\ description[i + 8] = "-"
           /\ n >= i + 12
        THEN SubSeq(description, i, IF n > i + 15 THEN i + 15 ELSE n)
        ELSE <<>>

RECURSIVE CveCapturesFrom(_, _)
CveCapturesFrom(description, i) ==
    IF i > Len(description) THEN <<>>
    ELSE IF CveMatchAt(description, i) # <<>> THEN CveMatchAt(description, i)
    ELSE CveCapturesFrom(description, i + 1)

\* Line 265: cve_pattern.captures(&finding.description)
CveCaptures(description) == CveCapturesFrom(description, 1)

\* The text of self.work_dir.
work_dir == <<"/","w">>

\* FollowUpAction, Pending and without a result.
PendingAction(id, description, command) ==
    [ id |-> id,
      description |-> description,
      command |-> command,
      status |-> "Pending",
      result |-> None ]

\* Lines 163-169: the action every finding gets.
UpdateDocumentationAction(id, finding) ==
    PendingAction(id,
                  <<"U","p","d","a","t","e"," ","d","o","c","u","m","e","n","t","a","t","i","o","n"," ","f","o","r"," ","f","i","n","d","i","n","g"," ">> \o finding.id,
                  None)

\* Lines 172-199: the version scan of the open ports.
OpenPortActions(id, finding) ==
    LET port_list == PortNumbers(finding.description)
        target == extract_target_from_command(finding.discovery_command)
    IN  IF port_list # <<>> /\ target # None
        THEN << PendingAction(id,
                    <<"P","e","r","f","o","r","m"," ","s","e","r","v","i","c","e"," ","v","e","r","s","i","o","n"," ","d","e","t","e","c","t","i","o","n"," ","o","n"," ","p","o","r","t","s",":"," ">>
                        \o Join(port_list, <<",">>),
                    Some(<<"n","m","a","p"," ","-","s","V"," ","-","p">> \o Join(port_list, <<",">>)
                            \o <<" ">> \o target[1])) >>
        ELSE <<>>

\* Lines 200-229, when the subdomains file could be written.
SubdomainActions(id, finding) ==
    IF Lines(finding.raw_evidence) # <<>>
    THEN << PendingAction(id,
                <<"C","h","e","c","k"," ","w","h","i","c","h"," ","s","u","b","d","o","m","a","i","n","s"," ","a","r","e"," ","a","c","t","i","v","e"," ","a","n","d"," ","r","e","s","o","l","v","e">>,
                Some(<<"c","a","t"," ","\"">> \o work_dir \o <<"/","s","u","b","d","o","m","a","i","n","s",".","t","x","t","\""," ","|"," ","h","t","t","p","x"," ","-","s","i","l","e","n","t"," ","-","o"," ","\"">>
                        \o work_dir \o <<"/","a","l","i","v","e","_","s","u","b","d","o","m","a","i","n","s",".","t","x","t","\"">>)) >>
    ELSE <<>>

\* Lines 230-239
PathActions(id, finding) ==
    << PendingAction(id,
           <<"M","a","n","u","a","l","l","y"," ","a","n","a","l","y","z","e"," ","d","i","s","c","o","v","e","r","e","d"," ","p","a","t","h","s"," ","f","o","r"," ","s","e","c","u","r","i","t","y"," ","v","u","l","n","e","r","a","b","i","l","i","t","i","e","s">>,
           None) >>

\* Lines 240-260
VersionActions(id, finding) ==
    LET cap == VersionCaptures(finding.description)
    IN  IF cap # <<>>
        THEN << PendingAction(id,
                    <<"S","e","a","r","c","h"," ","f","o","r"," ","k","n","o","w","n"," ","v","u","l","n","e","r","a","b","i","l","i","t","i","e","s"," ","i","n"," ">>
                        \o cap[1] \o <<" ">> \o cap[2],
                    Some(<<"s","e","a","r","c","h","s","p","l","o","i","t"," ">> \o cap[1] \o <<" ">> \o cap[2])) >>
        ELSE <<>>

\* Lines 261-276
CveActions(id, finding) ==
    LET cve_id == CveCaptures(finding.description)
    IN  IF cve_id # <<>>
        THEN << PendingAction(id,
                    <<"G","a","t","h","e","r"," ","d","e","t","a","i","l","e","d"," ","i","n","f","o","r","m","a","t","i","o","n"," ","a","b","o","u","t"," ">> \o cve_id,
                    Some(<<"c","u","r","l"," ","-","s"," ","h","t","t","p","s",":","/","/","c","v","e",".","c","i","r","c","l",".","l","u","/","a","p","i","/","c","v","e","/">> \o cve_id)) >>
        ELSE <<>>

\* Lines 277-287
InjectionActions(id, finding) ==
    << PendingAction(id,
           <<"M","a","n","u","a","l","l","y"," ","v","e","r","i","f","y"," ","t","h","e"," ">>
               \o (IF Contains(finding.title, <<"X","S","S">>) THEN <<"X","S","S">>
                   ELSE <<"S","Q","L"," ","I","n","j","e","c","t","i","o","n">>)
               \o <<" ","f","i","n","d","i","n","g">>,
           None) >>

\* The branch of lines 200-229 writes the subdomains file.
WritesSubdomainsFile(finding) ==
    /\ ~Contains(finding.title, <<"O","p","e","n"," ","P","o","r","t">>)
    /\ Contains(finding.title, <<"S","u","b","d","o","m","a","i","n">>)
    /\ Lines(finding.raw_evidence) # <<>>

\* Lines 172-287: the actions of the first branch whose words the title
\* contains.
\* CategoryActions testing "CVE" before "Version".
CategoryActionsCveFirst(id, finding) ==
    IF Contains(finding.title, <<"O","p","e","n"," ","P","o","r","t">>) THEN OpenPortActions(id, finding)
    ELSE IF Contains(finding.title, <<"S","u","b","d","o","m","a","i","n">>) THEN SubdomainActions(id, finding)
    ELSE IF Contains(finding.title, <<"P","a","t","h">>) \/ Contains(finding.title, <<"D","i","r","e","c","t","o","r","y">>)
    THEN PathActions(id, finding)
    ELSE IF Contains(finding.title, <<"C","V","E">>) THEN CveActions(id, finding)
    ELSE IF Contains(finding.title, <<"V","e","r","s","i","o","n">>) THEN VersionActions(id, finding)
    ELSE IF Contains(finding.title, <<"X","S","S">>) \/ Contains(finding.title, <<"I","n","j","e","c","t","i","o","n">>)
    THEN InjectionActions(id, finding)
    ELSE <<>>

CategoryActions(id, finding) ==
    IF Contains(finding.title, <<"O","p","e","n"," ","P","o","r","t">>) THEN OpenPortActions(id, finding)
    ELSE IF Contains(finding.title, <<"S","u","b","d","o","m","a","i","n">>) THEN SubdomainActions(id, finding)
    ELSE IF Contains(finding.title, <<"P","a","t","h">>) \/ Contains(finding.title, <<"D","i","r","e","c","t","o","r","y">>)
    THEN PathActions(id, finding)
    ELSE IF Contains(finding.title, <<"V","e","r","s","i","o","n">>) THEN VersionActions(id, finding)
    ELSE IF Contains(finding.title, <<"C","V","E">>) THEN CveActions(id, finding)
    ELSE IF Contains(finding.title, <<"X","S","S">>) \/ Contains(finding.title, <<"I","n","j","e","c","t","i","o","n">>)
    THEN InjectionActions(id, finding)
    ELSE <<>>

\* generate_follow_up_actions(finding), the ids of the actions being the
\* fresh ones first_id and first_id + 1 and file_ok telling whether the
\* subdomains file can be written: <<"Ok", actions>>, or <<"Err">>.
generate_follow_up_actions(finding, first_id, file_ok) ==
    IF WritesSubdomainsFile(finding) /\ ~file_ok THEN <<"Err">>
    ELSE <<"Ok", <<UpdateDocumentationAction(first_id, finding)>>
                 \o CategoryActions(first_id + 1, finding)>>

\* The DocumentedFinding document_finding builds at lines 135-146
\* (discovery_date and file_path, which are written once and never read back
\* by the operations modelled, are left out).
DocumentedFinding(doc_id, finding, command) ==
    [ id |-> doc_id,
      title |-> finding.title,
      description |-> finding.description,
      severity |-> finding.severity,
      discovery_command |-> command.command,
      raw_evidence |-> finding.raw_output,
      follow_up_actions |-> <<>>,
      status |-> "New" ]

\* Line 123: format!("FINDING-{}", ...) with the n-th fresh identifier.
DocIdText(n) == <<"F","I","N","D","I","N","G","-">> \o Decimal(n)

\* save_finding_to_file, lines 293-353: what the Markdown text shows of the
\* finding. The ids of the actions are not written.
Render(finding) ==
    [ heading |-> finding.title \o <<" ","(">> \o finding.id \o <<")">>,
      description |-> finding.description,
      severity |-> finding.severity,
      status |-> finding.status,
      discovery_command |-> finding.discovery_command,
      raw_evidence |-> finding.raw_evidence,
      actions |-> [i \in DOMAIN finding.follow_up_actions |->
                     [ description |-> finding.follow_up_actions[i].description,
                       status |-> finding.follow_up_actions[i].status,
                       command |-> finding.follow_up_actions[i].command,
                       result |-> finding.follow_up_actions[i].result ]] ]

\* What a call of save_finding_to_file can do to the file.
SaveOutcomes == {"saved", "open_failed", "write_failed"}

\* The file after save_finding_to_file(finding): written, or left as it was
\* when it cannot be opened, or truncated and cut short when a write fails.
SavedFile(old, finding, outcome) ==
    IF outcome = "saved" THEN <<"written", Render(finding)>>
    ELSE IF outcome = "open_failed" THEN old
    ELSE <<"partial">>

\* Lines 364-366 with an assignment of the whole action.
ReplaceAction(follow_up, action) == action

\* Lines 364-366: follow_up.status and follow_up.result take the action's.
MergeResult(follow_up, action) ==
    [follow_up EXCEPT !.status = action.status, !.result = action.result]

\* The index of the first action with that id in the list, 0 when none.
ActionIndex(actions, id) ==
    IF \E i \in DOMAIN actions : actions[i].id = id
    THEN CHOOSE i \in DOMAIN actions :
            /\ actions[i].id = id
            /\ \A j \in DOMAIN actions : actions[j].id = id => i <= j
    ELSE 0

\* Lines 360-373: the number of the first finding, in the order of iteration,
\* that has an action with that id; 0 when none has.
RECURSIVE FirstOwner(_, _, _)
FirstOwner(findings, order, id) ==
    IF order = <<>> THEN 0
    ELSE IF ActionIndex(findings[order[1]][1].follow_up_actions, id) # 0
    THEN order[1]
    ELSE FirstOwner(findings, Tail(order), id)

\* Lines 358-373: documented_findings after the loops.
MergedFindings(findings, order, action) ==
    LET d == FirstOwner(findings, order, action.id)
    IN  IF d = 0 THEN findings
        ELSE LET i == ActionIndex(findings[d][1].follow_up_actions, action.id)
             IN  [findings EXCEPT
                    ![d] = Some([@[1] EXCEPT
                        !.follow_up_actions[i] = MergeResult(@, action)])]

\* The orders in which a map with these keys can iterate.
Orders(keys) ==
    {o \in [1..Cardinality(keys) -> keys] :
        \A i, j \in 1..Cardinality(keys) : o[i] = o[j] => i = j}

\* ------------------------- OutputAnalyzer: vulnerabilities and paths

\* Matching a pattern piece by piece: a position is where the next piece has
\* to start, and 0 says that an earlier piece did not match.

\* The position after a run of \s+ that starts at i.
AfterSpaces(s, i) ==
    IF i # 0 /\ RunEnd(s, i, SpaceChars) >= i
    THEN RunEnd(s, i, SpaceChars) + 1 ELSE 0

\* The position after a run of \d+ that starts at i.
AfterDigits(s, i) ==
    IF i # 0 /\ RunEnd(s, i, DigitChars) >= i
    THEN RunEnd(s, i, DigitChars) + 1 ELSE 0

\* The position after the literal p at position i.
AfterLiteral(s, i, p) == IF i # 0 /\ MatchesAt(s, i, p) THEN i + Len(p) ELSE 0

\* The names of the version disclosure pattern (line 35).
software_names ==
    << <<"a","p","a","c","h","e">>, <<"n","g","i","n","x">>, <<"i","i","s">>, <<"t","o","m","c","a","t">>, <<"p","h","p">>,
       <<"m","y","s","q","l">>, <<"p","o","s","t","g","r","e","s","q","l">>, <<"m","s","s","q","l">> >>

\* An optional "." at position i: the position after it.
AfterOptionalDot(s, i) == IF MatchesAt(s, i, <<".">>) THEN i + 1 ELSE i

\* (?:/| |-)(\d+\.\d+\.?\d*) at position sep, after the name: << end
\* of the name, start of the version, end of the version >>, or <<>>.
VersionAfterName(lower, sep) ==
    IF /\ sep <= Len(lower)
       /\ lower[sep] \in {"/", " ", "-"}
       /\ AfterDigits(lower, AfterLiteral(lower, AfterDigits(lower, sep + 1), <<".">>)) # 0
    THEN <<sep - 1, sep + 1,
           RunEnd(lower,
                  AfterOptionalDot(lower,
                      AfterDigits(lower,
                          AfterLiteral(lower, AfterDigits(lower, sep + 1), <<".">>))),
                  DigitChars)>>
    ELSE <<>>

\* (?i)(apache|nginx|...)(?:/| |-)(\d+\.\d+\.?\d*) at position i of the
\* line: << end of the name, start of the version, end of the version >>,
\* or <<>>. lower is the line in lower case.
VersionDisclosureAt(lower, i) ==
    LET names == {k \in DOMAIN software_names : MatchesAt(lower, i, software_names[k])}
    IN  IF names = {} THEN <<>>
        ELSE VersionAfterName(lower,
                 i + Len(software_names[CHOOSE k \in names : \A m \in names : k <= m]))

RECURSIVE VersionDisclosureFrom(_, _)
\* The first position from i on at which the pattern matches, 0 when it
\* matches nowhere.
VersionDisclosureFrom(lower, i) ==
    IF i > Len(lower) THEN 0
    ELSE IF VersionDisclosureAt(lower, i) # <<>> THEN i
    ELSE VersionDisclosureFrom(lower, i + 1)

\* The captures of the version disclosure pattern in the line: software and
\* version of the leftmost match, or <<>>.
VersionDisclosure(line) ==
    LET lower == ToLower(line)
        i == VersionDisclosureFrom(lower, 1)
    IN  IF i = 0 THEN <<>>
        ELSE LET m == VersionDisclosureAt(lower, i)
             IN  <<SubSeq(line, i, m[1]), SubSeq(line, m[2], m[3])>>

\* (?i)CVE-\d{4}-\d{4,7} matches somewhere in the line (line 37).
CveReference(line) ==
    LET lower == ToLower(line)
    IN  \E i \in 1..Len(lower) :
            /\ MatchesAt(lower, i, <<"c","v","e","-">>)
            /\ RunEnd(lower, i + 4, DigitChars) >= i + 7
            /\ MatchesAt(lower, i + 8, <<"-">>)
            /\ RunEnd(lower, i + 9, DigitChars) >= i + 12

\* (?i)sql(?:\s+)?injection matches somewhere in the line (line 41).
SqlInjectionReference(line) ==
    LET lower == ToLower(line)
    IN  \E i \in 1..Len(lower) :
            /\ MatchesAt(lower, i, <<"s","q","l">>)
            /\ MatchesAt(lower, RunEnd(lower, i + 3, SpaceChars) + 1, <<"i","n","j","e","c","t","i","o","n">>)

\* Lines 31-42: whether the k-th vulnerability pattern matches the line.
VulnerabilityPatternMatches(k, line) ==
    CASE k = 1 -> \/ Contains(ToLower(line), <<"v","u","l","n","e","r","a","b","l","e">>)
                  \/ Contains(ToLower(line), <<"v","u","l","n","e","r","a","b","i","l","i","t","y">>)
                  \/ Contains(ToLower(line), <<"e","x","p","l","o","i","t">>)
                  \/ Contains(ToLower(line), <<"d","e","p","r","e","c","a","t","e","d">>)
      [] k = 2 -> VersionDisclosure(line) # <<>>
      [] k = 3 -> CveReference(line)
      [] k = 4 -> \/ Contains(ToLower(line), <<"x","s","s">>)
                  \/ Contains(ToLower(line), <<"c","r","o","s","s","-","s","i","t","e">>)
      [] k = 5 -> SqlInjectionReference(line)

\* Lines 216-275: what a line and the k-th pattern, which matches it, add
\* to findings: <<title, description, severity, raw_output>>.
VulnerabilityOf(k, line) ==
    IF k = 2
    THEN << << VersionDisclosure(line)[1] \o <<" ","V","e","r","s","i","o","n"," ","D","i","s","c","l","o","s","u","r","e">>,
               <<"D","e","t","e","c","t","e","d"," ">> \o VersionDisclosure(line)[1] \o <<" ","v","e","r","s","i","o","n"," ">>
                   \o VersionDisclosure(line)[2],
               "Low", line >> >>
    ELSE IF Contains(line, str_cve_dash)
    THEN IF CveCaptures(line) # <<>>
         THEN << << <<"P","o","t","e","n","t","i","a","l"," ","C","V","E"," ","D","e","t","e","c","t","e","d">>,
                    <<"F","o","u","n","d"," ","r","e","f","e","r","e","n","c","e"," ","t","o"," ">> \o CveCaptures(line) \o <<" ","i","n"," ","o","u","t","p","u","t">>,
                    "High", line >> >>
         ELSE <<>>
    ELSE IF \/ Contains(ToLower(line), <<"v","u","l","n","e","r","a","b","l","e">>)
            \/ Contains(ToLower(line), <<"v","u","l","n","e","r","a","b","i","l","i","t","y">>)
            \/ Contains(ToLower(line), <<"e","x","p","l","o","i","t">>)
    THEN << << <<"P","o","t","e","n","t","i","a","l"," ","V","u","l","n","e","r","a","b","i","l","i","t","y"," ","D","e","t","e","c","t","e","d">>,
               <<"D","e","t","e","c","t","e","d"," ","p","o","t","e","n","t","i","a","l"," ","v","u","l","n","e","r","a","b","i","l","i","t","y"," ","i","n","d","i","c","a","t","o","r"," ","i","n"," ","o","u","t","p","u","t">>,
               "Medium", line >> >>
    ELSE IF \/ Contains(ToLower(line), <<"x","s","s">>)
            \/ Contains(ToLower(line), <<"c","r","o","s","s","-","s","i","t","e"," ","s","c","r","i","p","t","i","n","g">>)
    THEN << << <<"P","o","t","e","n","t","i","a","l"," ","X","S","S"," ","V","u","l","n","e","r","a","b","i","l","i","t","y">>,
               <<"D","e","t","e","c","t","e","d"," ","p","o","t","e","n","t","i","a","l"," ","X","S","S"," ","v","u","l","n","e","r","a","b","i","l","i","t","y"," ","i","n","d","i","c","a","t","o","r">>,
               "High", line >> >>
    ELSE IF Contains(ToLower(line), <<"s","q","l"," ","i","n","j","e","c","t","i","o","n">>)
    THEN << << <<"P","o","t","e","n","t","i","a","l"," ","S","Q","L"," ","I","n","j","e","c","t","i","o","n"," ","V","u","l","n","e","r","a","b","i","l","i","t","y">>,
               <<"D","e","t","e","c","t","e","d"," ","p","o","t","e","n","t","i","a","l"," ","S","Q","L"," ","i","n","j","e","c","t","i","o","n"," ","v","u","l","n","e","r","a","b","i","l","i","t","y"," ","i","n","d","i","c","a","t","o","r">>,
               "High", line >> >>
    ELSE <<>>

RECURSIVE VulnerabilitiesOfLine(_, _)
\* Lines 215-276: the inner loop over the patterns, from the k-th on.
VulnerabilitiesOfLine(line, k) ==
    IF k > 5 THEN <<>>
    ELSE (IF VulnerabilityPatternMatches(k, line) THEN VulnerabilityOf(k, line)
          ELSE <<>>)
         \o VulnerabilitiesOfLine(line, k + 1)

RECURSIVE Vulnerabilities(_)
\* Lines 214-277: the loop over the lines.
Vulnerabilities(lines) ==
    IF lines = <<>> THEN <<>>
    ELSE VulnerabilitiesOfLine(lines[1], 1) \o Vulnerabilities(Tail(lines))

\* analyze_vulnerabilities(context, command_id), lines 209-293: a finding
\* for every entry, and no summary.
analyze_vulnerabilities(context, command_id) ==
    LET findings == Vulnerabilities(Lines(context))
    IN  [i \in DOMAIN findings |->
           [ finding |-> create_finding(findings[i][1], findings[i][2],
                                        findings[i][3], command_id,
                                        findings[i][4]),
             summary |-> <<>> ]]

\* (?i)Status: 200\s+Size:\s+\d+\s+Path:\s+(\S+) at position i (line 47):
\* << start of the path, end of the path >>, or <<>>.
StatusPathAt(lower, i) ==
    LET h == AfterSpaces(lower,
               AfterLiteral(lower,
                 AfterSpaces(lower,
                   AfterDigits(lower,
                     AfterSpaces(lower,
                       AfterLiteral(lower,
                         AfterSpaces(lower,
                           AfterLiteral(lower, i, <<"s","t","a","t","u","s",":"," ","2","0","0">>)),
                         <<"s","i","z","e",":">>)))),
                 <<"p","a","t","h",":">>))
    IN  IF h # 0 /\ RunEndOutside(lower, h, SpaceChars) >= h
        THEN <<h, RunEndOutside(lower, h, SpaceChars)>>
        ELSE <<>>

RECURSIVE StatusPathFrom(_, _)
\* The first position from i on at which the pattern matches, 0 when it
\* matches nowhere.
StatusPathFrom(lower, i) ==
    IF i > Len(lower) THEN 0
    ELSE IF StatusPathAt(lower, i) # <<>> THEN i
    ELSE StatusPathFrom(lower, i + 1)

\* The capture of the first path pattern in the line, or <<>>.
StatusPath(line) ==
    LET lower == ToLower(line)
        i == StatusPathFrom(lower, 1)
    IN  IF i = 0 THEN <<>>
        ELSE <<SubSeq(line, StatusPathAt(lower, i)[1], StatusPathAt(lower, i)[2])>>

\* (?i)\(Status: 200\)\s+\[Size: \d+\] matches somewhere in the line
\* (line 48).
StatusSizeReference(line) ==
    LET lower == ToLower(line)
    IN  \E i \in 1..Len(lower) :
            MatchesAt(lower,
                AfterDigits(lower,
                    AfterLiteral(lower,
                        AfterSpaces(lower,
                            AfterLiteral(lower, i, <<"(","s","t","a","t","u","s",":"," ","2","0","0",")">>)),
                        <<"[","s","i","z","e",":"," ">>)),
                <<"]">>)

\* The names of the admin pattern (line 50) and of the test of lines
\* 374-380.
admin_names ==
    << <<"a","d","m","i","n">>, <<"c","o","n","f","i","g">>, <<"s","e","t","u","p">>, <<"i","n","s","t","a","l","l">>, <<"b","a","c","k","u","p">>,
       <<"w","p","-","a","d","m","i","n">>, <<"p","h","p","M","y","A","d","m","i","n">> >>

\* (?i)/(?:admin|...)(?:/|\s|$) matches somewhere in the line.
AdminReference(line) ==
    LET lower == ToLower(line)
    IN  \E i \in 1..Len(lower) : \E k \in DOMAIN admin_names :
            LET after == AfterLiteral(lower, i, <<"/">> \o ToLower(admin_names[k]))
            IN  /\ after # 0
                /\ \/ after = Len(lower) + 1
                   \/ lower[after] \in SpaceChars \cup {"/"}

\* Lines 374-380: the line names an admin path.
NamesAdminPath(line) ==
    \E k \in DOMAIN admin_names : Contains(line, <<"/">> \o admin_names[k])

\* Lines 45-51: whether the k-th path pattern matches the line.
PathPatternMatches(k, line) ==
    CASE k = 1 -> StatusPath(line) # <<>>
      [] k = 2 -> StatusSizeReference(line)
      [] k = 3 -> AdminReference(line)

RECURSIVE PathsOfLine(_, _)
\* Lines 371-391: what the patterns from the k-th on add for the line:
\* <<"admin", line>> to admin_paths, <<"path", capture>> to paths.
PathsOfLine(line, k) ==
    IF k > 3 THEN <<>>
    ELSE (IF ~PathPatternMatches(k, line) THEN <<>>
          ELSE IF NamesAdminPath(line) THEN << <<"admin", line>> >>
          ELSE IF k = 1 THEN << <<"path", StatusPath(line)[1]>> >>
          ELSE <<>>)
         \o PathsOfLine(line, k + 1)

RECURSIVE PathsOfLines(_)
PathsOfLines(lines) ==
    IF lines = <<>> THEN <<>>
    ELSE PathsOfLine(lines[1], 1) \o PathsOfLines(Tail(lines))

\* iter().take(n).join(", ") and the " and N more" of lines 396-407 and
\* 424-435.
ListOfFirst(items, n) ==
    Join(Take(items, n), <<","," ">>)
    \o (IF Len(items) > n
        THEN <<" ","a","n","d"," ">> \o Decimal(Len(items) - n) \o <<" ","m","o","r","e">>
        ELSE <<>>)

\* Lines 366-367 and 371-391: paths and admin_paths after the loop.
PathsFound(found) ==
    LET IsPath(e) == e[1] = "path"
    IN  [i \in DOMAIN SelectSeq(found, IsPath) |-> SelectSeq(found, IsPath)[i][2]]

AdminPathsFound(found) ==
    LET IsAdmin(e) == e[1] = "admin"
    IN  [i \in DOMAIN SelectSeq(found, IsAdmin) |-> SelectSeq(found, IsAdmin)[i][2]]

\* Lines 441-452: the summary the command gets.
PathSummary(paths, admin_paths) ==
    << <<"D","i","s","c","o","v","e","r","e","d"," ">> \o Decimal(Len(paths) + Len(admin_paths))
       \o <<" ","p","a","t","h","s"," ","(">> \o Decimal(Len(admin_paths))
       \o <<" ","p","o","t","e","n","t","i","a","l","l","y"," ","s","e","n","s","i","t","i","v","e",")">> >>

\* Lines 394-439: the finding of the paths, the finding of the admin paths,
\* and the summary, which is set after both.
PathFindings(paths, admin_paths, command_id) ==
    (IF paths = <<>> THEN <<>>
     ELSE << [ finding |->
                 create_finding(
                     <<"I","n","t","e","r","e","s","t","i","n","g"," ","P","a","t","h","s"," ","D","i","s","c","o","v","e","r","e","d">>,
                     <<"D","i","s","c","o","v","e","r","e","d"," ">> \o Decimal(Len(paths))
                         \o <<" ","i","n","t","e","r","e","s","t","i","n","g"," ","p","a","t","h","s",":"," ">>
                         \o ListOfFirst(paths, 10),
                     "Info", command_id, Join(paths, <<"\n">>)),
               summary |-> IF admin_paths = <<>>
                           THEN PathSummary(paths, admin_paths) ELSE <<>> ] >>)
    \o (IF admin_paths = <<>> THEN <<>>
        ELSE << [ finding |->
                    create_finding(
                        <<"P","o","t","e","n","t","i","a","l","l","y"," ","S","e","n","s","i","t","i","v","e"," ","P","a","t","h","s"," ","D","i","s","c","o","v","e","r","e","d">>,
                        <<"D","i","s","c","o","v","e","r","e","d"," ">> \o Decimal(Len(admin_paths))
                            \o <<" ","p","o","t","e","n","t","i","a","l","l","y"," ","s","e","n","s","i","t","i","v","e"," ","p","a","t","h","s",":"," ">>
                            \o ListOfFirst(admin_paths, 5),
                        "Medium", command_id, Join(admin_paths, <<"\n">>)),
                  summary |-> PathSummary(paths, admin_paths) ] >>)

\* analyze_paths(context, command_id), lines 365-455
analyze_paths(context, command_id) ==
    PathFindings(PathsFound(PathsOfLines(Lines(context))),
                 AdminPathsFound(PathsOfLines(Lines(context))),
                 command_id)

\* analyze_generic_output, lines 458-466
analyze_generic_output(context, command_id) ==
    analyze_port_scan(context, command_id)
    \o analyze_vulnerabilities(context, command_id)
    \o analyze_subdomains(context, command_id)
    \o analyze_paths(context, command_id)

\* PassFindings with the generic analysis for every command type.
PassFindingsGeneric(command_type, lines, command_id) ==
    analyze_generic_output(Join(lines, <<"\n">>), command_id)

\* Lines 122-145 of analyze_command_output: the findings of the pass over
\* the joined buffer, in the order they are added.
PassFindings(command_type, lines, command_id) ==
    LET context == Join(lines, <<"\n">>)
    IN  CASE command_type = "Reconnaissance" ->
                analyze_port_scan(context, command_id)
                    \o analyze_subdomains(context, command_id)
          [] command_type = "Scanning" ->
                analyze_vulnerabilities(context, command_id)
          [] command_type = "Vulnerability" ->
                analyze_vulnerabilities(context, command_id)
          [] OTHER -> analyze_generic_output(context, command_id)

\* ------------------------------------------------------------------ state

VARIABLES
    commands,     \* active_commands: the registry, a sequence of MonitoredCommand
    lock,         \* holder of the active_commands mutex, <<>> when it is free
    now,          \* the value the next chrono::Utc::now() returns; successive
                  \* reads give successive values
    proc,         \* per command id: the OS process execute_command spawned
    readers,      \* per command id: the stdout and stderr reader tasks exist
    waitPc,       \* per command id: position of the exit-wait task
    waitRes,      \* per command id: what process.wait() returned to that task
    outputChan,   \* the events sent on the output channel
    execPc,       \* position of the task inside execute_command
    arg,          \* execute_command's `command` argument
    validated,    \* execute_command's validated_command
    execId,       \* execute_command's command_id
    execResult,   \* what the last execute_command call returned
    execLenBefore,\* length of the registry when that call was entered
    termPc,       \* position of the task inside terminate_command
    termId,       \* terminate_command's cmd_id
    termCmd,      \* terminate_command's cmd_opt, as get_command returned it
    termTarget,   \* the command whose process the matching ps line names
    termResult,   \* what the last terminate_command call returned
    termWrote     \* that call has written to the registry

VARIABLES
    argType,      \* execute_command's `command_type` argument
    outputSlot,   \* the channel whose receiver is in output_channel.1
    outputMade,   \* how many channels get_output_receiver has created
    fwdRx,        \* main's output_rx, the receiver of the forwarding task
    fwdGot,       \* the events the forwarding task has received
    anRx,         \* OutputAnalyzer.output_rx
    anPc,         \* position of the task inside OutputAnalyzer::start
    anEvent,      \* the command id of the event the analyzer is handling
    buffer,       \* OutputAnalyzer.buffer: per command id, its lines
    last_analyzed,\* OutputAnalyzer.last_analyzed: per command id, an Instant
    instant,      \* the monotonic clock (Instant::now()), in seconds
    anPending,    \* the findings of the running pass that are not added yet
    passAt,       \* per command id: when its latest analysis pass began
    findingChan,  \* the findings sent on the finding channel, not yet received
    findingRxLive \* the receiver of that channel has not been dropped

VARIABLES
    docPc,        \* position of the task inside AutoDocumentation::start
    docFinding,   \* the finding start has received and is handling
    docCur,       \* the number of the DocumentedFinding document_finding made
    docActions,   \* the actions of generate_follow_up_actions not yet sent
    documented_findings, \* per document number: the DocumentedFinding, or None
    docOrder,     \* the order in which the HashMap iterates over its keys
    docFiles,     \* per document number: what its Markdown file renders
    docSeen,      \* how many findings start has received
    nextDocId,    \* the number the next document id carries
    nextActionId, \* the next fresh action id
    updResult,    \* what the last update_finding_with_action_result returned
    followUpChan  \* the actions sent on the follow-up channel, not yet received

VARIABLES
    actPc,        \* position of the task inside ActionExecutor::start
    actCur,       \* the action start has received and is handling
    actSeen,      \* how many actions start has received
    current_executing, \* ActionExecutor.current_executing
    actTasks,     \* the tasks start has spawned: the action copy and position
    resultChan    \* the actions sent on the result channel

VARIABLES
    summaryReport,  \* the file generate_summary_report wrote last
    findingsReport  \* the file generate_findings_report wrote last

reportVars == <<summaryReport, findingsReport>>

VARIABLES
    pipe,         \* per command and stream: the lines written and not yet read
    emitted,      \* per command and stream: every line the process wrote
    readerPc,     \* per command and stream: where the reader task is
    readerLine,   \* per command and stream: the line the reader holds
    outputFile,   \* per command: the tagged lines of its output file
    outputRxLive  \* the receiver of channel 0 has not been dropped

streamVars == <<pipe, emitted, readerPc, readerLine, outputFile, outputRxLive>>

VARIABLES
    wfcPc,        \* position of the task inside wait_for_command_completion
    wfcCmdId,     \* wait_for_command_completion's cmd_id
    max_attempts, \* its max_attempts (the timeout_seconds argument)
    attempts,     \* its attempts
    polls,        \* how many times that call has read get_command
    wfcResult,    \* what the last wait_for_command_completion returned
    summaryId,    \* the id argument of the last update_command_summary call
    summaryResult \* what that call returned

callVars == <<wfcPc, wfcCmdId, max_attempts, attempts, polls, wfcResult,
              summaryId, summaryResult>>

docVars == <<docPc, docFinding, docCur, docActions, documented_findings,
             docOrder, docFiles, docSeen, nextDocId, nextActionId, updResult,
             followUpChan>>
actVars == <<actPc, actCur, actSeen, current_executing, actTasks, resultChan>>
downstreamVars == <<docVars, actVars, reportVars, streamVars, callVars>>

chanVars == <<outputSlot, outputMade, fwdRx, fwdGot>>
anVars == <<anRx, anPc, anEvent, buffer, last_analyzed, instant, anPending, passAt>>
findingVars == <<findingChan, findingRxLive>>
pipelineVars == <<chanVars, anVars, findingVars, downstreamVars>>

monitorVars == <<commands, lock, now, proc, readers, waitPc, waitRes>>
execVars == <<execPc, arg, argType, validated, execId, execResult, execLenBefore>>
termVars == <<termPc, termId, termCmd, termTarget, termResult, termWrote>>
vars == <<monitorVars, outputChan, execVars, termVars, pipelineVars>>

CmdIds == 1..MaxCommands

\* A stream of a command: is_error is FALSE for stdout, TRUE for stderr.
Streams == CmdIds \X BOOLEAN

DocIds == 1..MaxFindings

Running == <<"Running">>
Completed == <<"Completed">>
Failed(reason) == <<"Failed", reason>>

TerminatedByUser == Failed("Terminated by user")

\* The record execute_command builds at lines 118-128 (start_time and
\* output_file, which no operation of the monitor reads back, are left out).
MonitoredCommand(id, command, command_type) ==
    [ id |-> id,
      command |-> command,
      end_time |-> None,
      status |-> Running,
      results_summary |-> None,
      findings |-> <<>>,
      command_type |-> command_type ]

\* commands.iter().find(|cmd| cmd.id == id): the index of the first record
\* with that id, 0 when there is none.
FindIndex(cmds, id) ==
    IF \E i \in DOMAIN cmds : cmds[i].id = id
    THEN CHOOSE i \in DOMAIN cmds :
            /\ cmds[i].id = id
            /\ \A j \in DOMAIN cmds : cmds[j].id = id => i <= j
    ELSE 0

\* get_command falling back to the first record for an id that is not there.
get_command_or_first(id) ==
    IF FindIndex(commands, id) = 0 THEN Some(commands[1])
    ELSE Some(commands[FindIndex(commands, id)])

\* get_command(id): Option<MonitoredCommand>
get_command(id) ==
    IF FindIndex(commands, id) = 0 THEN None
    ELSE Some(commands[FindIndex(commands, id)])

\* ExitStatus not looking at status.success(): every Ok(status) is Completed.
ExitStatusIgnoringCode(res) ==
    CASE res = "success" -> Completed
      [] res = "failure" -> Completed
      [] res = "wait_error" -> Failed("Error waiting for command")

\* The status the exit-wait task stores for what process.wait() returned:
\* lines 235-239 for Ok(status), line 247 for Err(e).
ExitStatus(res) ==
    CASE res = "success" -> Completed
      [] res = "failure" -> Failed("Command exited with code")
      [] res = "wait_error" -> Failed("Error waiting for command")

\* The text of the ps -ef line of the process spawned for command text c
\* (bash -c <command>).
PsLine(c) == <<"b","a","s","h"," ","-","c"," ">> \o c

\* The command lines the caller submits in the lifecycle specification.
cmd_blank == <<" ">>
cmd_ls == <<"l","s">>
LifecycleInputs == {cmd_blank, cmd_ls}

\* OutputAnalyzer::start compares the age of last_analyzed with this many
\* seconds (output_analyzer.rs, line 87).
ThrottleSecs == 5

\* The clock is read every TickSecs seconds: one step is within the throttle
\* interval and two steps are beyond it.
TickSecs == (ThrottleSecs \div 2) + 1
MaxInstant == 3 * TickSecs

\* The state after CommandMonitor::new and before main has wired anything:
\* both channels as created, no receiver handed out, no analyzer.
\* AutoDocumentation::new (lines 63-88) and ActionExecutor::new (lines 21-35);
\* neither start has been called.
DownstreamInit ==
    /\ docPc = "idle"
    /\ docFinding = None
    /\ docCur = 0
    /\ docActions = <<>>
    /\ documented_findings = [d \in DocIds |-> None]
    /\ docOrder = <<>>
    /\ docFiles = [d \in DocIds |-> None]
    /\ docSeen = 0
    /\ nextDocId = 1
    /\ nextActionId = 1
    /\ updResult = <<>>
    /\ followUpChan = <<>>
    /\ actPc = "idle"
    /\ actCur = None
    /\ actSeen = 0
    /\ current_executing = 0
    /\ actTasks = <<>>
    /\ resultChan = <<>>
    /\ summaryReport = None
    /\ findingsReport = None
    /\ pipe = [st \in Streams |-> <<>>]
    /\ emitted = [st \in Streams |-> <<>>]
    /\ readerPc = [st \in Streams |-> "read"]
    /\ readerLine = [st \in Streams |-> <<>>]
    /\ outputFile = [c \in CmdIds |-> <<>>]
    /\ outputRxLive = TRUE
    /\ wfcPc = "idle"
    /\ wfcCmdId = 0
    /\ max_attempts = 0
    /\ attempts = 0
    /\ polls = 0
    /\ wfcResult = None
    /\ summaryId = 0
    /\ summaryResult = <<>>

PipelineInit ==
    /\ outputSlot = 0
    /\ outputMade = 0
    /\ fwdRx = None
    /\ fwdGot = <<>>
    /\ anRx = None
    /\ anPc = "recv"
    /\ anEvent = 0
    /\ buffer = [c \in CmdIds |-> <<>>]
    /\ last_analyzed = [c \in CmdIds |-> None]
    /\ instant = 0
    /\ anPending = <<>>
    /\ passAt = [c \in CmdIds |-> None]
    /\ findingChan = <<>>
    /\ findingRxLive = TRUE
    /\ DownstreamInit

TypeOK ==
    /\ lock \in {<<>>} \cup {<<"exit_wait", c>> : c \in CmdIds} \cup {<<"terminate">>}
    /\ Len(commands) <= MaxCommands
    /\ proc \in [CmdIds -> {"none", "running", "killed", "reaped"}]
    /\ waitPc \in [CmdIds -> {"none", "waiting", "returned", "end_set", "done"}]
    /\ waitRes \in [CmdIds -> {"none", "success", "failure", "wait_error"}]

Init ==
    /\ commands = <<>>
    /\ lock = <<>>
    /\ now = 0
    /\ proc = [c \in CmdIds |-> "none"]
    /\ readers = [c \in CmdIds |-> FALSE]
    /\ waitPc = [c \in CmdIds |-> "none"]
    /\ waitRes = [c \in CmdIds |-> "none"]
    /\ outputChan = <<>>
    /\ execPc = "idle"
    /\ arg = <<>>
    /\ argType = <<>>
    /\ validated = <<>>
    /\ execId = 0
    /\ execResult = <<>>
    /\ execLenBefore = 0
    /\ termPc = "idle"
    /\ termId = 0
    /\ termCmd = None
    /\ termTarget = 0
    /\ termResult = <<>>
    /\ termWrote = FALSE
    /\ PipelineInit

\* ------------------------------------------------------- execute_command

\* Lines 105-108: the caller enters execute_command(command, command_type)
\* and the command is validated; an error is returned at once.
ExecCall(command, command_type) ==
    /\ execPc = "idle"
    /\ Len(commands) < MaxCommands
    /\ arg' = command
    /\ argType' = command_type
    /\ execLenBefore' = Len(commands)
    /\ \E which \in WhichOutcomes :
        LET r == validate_and_fix_command(command, which)
        IN  IF r[1] = "Err"
            THEN /\ execPc' = "idle"
                 /\ execResult' = r
                 /\ validated' = <<>>
            ELSE /\ execPc' = "push"
                 /\ execResult' = <<>>
                 /\ validated' = r[2]
    /\ UNCHANGED execId
    /\ UNCHANGED <<monitorVars, outputChan, termVars>>
    /\ UNCHANGED pipelineVars

\* Lines 110-134: a fresh id, the record, and its push under the lock.
ExecPush ==
    /\ execPc = "push"
    /\ lock = <<>>
    /\ execId' = Len(commands) + 1
    /\ commands' = Append(commands,
                          MonitoredCommand(Len(commands) + 1, validated, argType))
    /\ execPc' = "open_file"
    /\ UNCHANGED <<arg, argType, validated, execResult, execLenBefore>>
    /\ UNCHANGED <<lock, now, proc, readers, waitPc, waitRes, outputChan, termVars>>
    /\ UNCHANGED pipelineVars

\* Lines 140-146: OpenOptions ... .open(&output_file)?
ExecOpenFile ==
    /\ execPc = "open_file"
    /\ \E opened \in BOOLEAN :
        IF opened
        THEN execPc' = "spawn" /\ UNCHANGED <<execResult, validated>>
        ELSE /\ execPc' = "idle"
             /\ execResult' = <<"Err", "open output file">>
             /\ validated' = <<>>
    /\ UNCHANGED <<arg, argType, execId, execLenBefore>>
    /\ UNCHANGED <<monitorVars, outputChan, termVars>>
    /\ UNCHANGED pipelineVars

\* Lines 152-158: Command::new("bash") ... .spawn().context(..)?
ExecSpawn ==
    /\ execPc = "spawn"
    /\ \E spawned \in BOOLEAN :
        IF spawned
        THEN /\ proc' = [proc EXCEPT ![execId] = "running"]
             /\ execPc' = "spawn_tasks"
             /\ UNCHANGED <<execResult, validated>>
        ELSE /\ execPc' = "idle"
             /\ execResult' = <<"Err", "Failed to spawn command process">>
             /\ validated' = <<>>
             /\ UNCHANGED proc
    /\ UNCHANGED <<arg, argType, execId, execLenBefore>>
    /\ UNCHANGED <<commands, lock, now, readers, waitPc, waitRes, outputChan, termVars>>
    /\ UNCHANGED pipelineVars

\* Lines 161-253: the two stream readers and the exit-wait task are spawned
\* and the id is returned.
ExecSpawnTasks ==
    /\ execPc = "spawn_tasks"
    /\ readers' = [readers EXCEPT ![execId] = TRUE]
    /\ waitPc' = [waitPc EXCEPT ![execId] = "waiting"]
    /\ execPc' = "idle"
    /\ execResult' = <<"Ok", execId>>
    /\ validated' = <<>>
    /\ UNCHANGED <<arg, argType, execId, execLenBefore>>
    /\ UNCHANGED <<commands, lock, now, proc, waitRes, outputChan, termVars>>
    /\ UNCHANGED pipelineVars

\* Lines 169-220: a reader task reads a line of its stream and sends the event.
ReaderPublish(c, is_error, line) ==
    /\ readers[c]
    /\ Len(outputChan) < MaxEvents
    /\ outputChan' = Append(outputChan,
                            [command_id |-> c, line |-> line, is_error |-> is_error])
    /\ UNCHANGED <<monitorVars, execVars, termVars>>
    /\ UNCHANGED pipelineVars

\* ------------------------------------------------------ the stream readers

\* The process writes a line to its stdout or stderr pipe.
ProcEmit(c, is_error, line) ==
    /\ proc[c] \in {"running", "killed"}
    /\ Len(emitted[<<c, is_error>>]) < MaxLines
    /\ pipe' = [pipe EXCEPT ![<<c, is_error>>] = Append(@, line)]
    /\ emitted' = [emitted EXCEPT ![<<c, is_error>>] = Append(@, line)]
    /\ UNCHANGED <<readerPc, readerLine, outputFile, outputRxLive>>
    /\ UNCHANGED <<monitorVars, outputChan, execVars, termVars>>
    /\ UNCHANGED <<chanVars, anVars, findingVars, docVars, actVars, reportVars, callVars>>

NewestLine(lines) == lines[Len(lines)]

\* Lines 170 and 201: BufReader::lines() yields the lines of the stream in
\* the order they were written.
NextLine(lines) == Head(lines)

\* The tag of the lines of a stream in the output file (lines 174 and 205).
StreamTag(is_error) == IF is_error THEN "[STDERR]" ELSE "[STDOUT]"

\* Lines 170-175 and 201-206: the reader takes the next line of its stream
\* and, if it is Ok, writes it with its tag to the output file under the
\* file's mutex; a line that is an Err (not UTF-8) is skipped.
ReaderRead(c, is_error, read_ok) ==
    /\ readers[c]
    /\ readerPc[<<c, is_error>>] = "read"
    /\ pipe[<<c, is_error>>] # <<>>
    /\ pipe' = [pipe EXCEPT ![<<c, is_error>>] = Tail(@)]
    /\ IF read_ok
       THEN /\ outputFile' = [outputFile EXCEPT
                                ![c] = Append(@, <<StreamTag(is_error),
                                                   NextLine(pipe[<<c, is_error>>])>>)]
            /\ readerLine' = [readerLine EXCEPT
                                ![<<c, is_error>>] = NextLine(pipe[<<c, is_error>>])]
            /\ readerPc' = [readerPc EXCEPT ![<<c, is_error>>] = "send"]
       ELSE UNCHANGED <<outputFile, readerLine, readerPc>>
    /\ UNCHANGED <<emitted, outputRxLive>>
    /\ UNCHANGED <<monitorVars, outputChan, execVars, termVars>>
    /\ UNCHANGED <<chanVars, anVars, findingVars, docVars, actVars, reportVars, callVars>>

\* ReaderSend leaving the loop when the send fails.
ReaderSendStopping(c, is_error) ==
    /\ readerPc[<<c, is_error>>] = "send"
    /\ IF outputRxLive
       THEN /\ Len(outputChan) < MaxEvents
            /\ outputChan' = Append(outputChan,
                                    [command_id |-> c,
                                     line |-> readerLine[<<c, is_error>>],
                                     is_error |-> is_error])
            /\ readerPc' = [readerPc EXCEPT ![<<c, is_error>>] = "read"]
       ELSE /\ UNCHANGED outputChan
            /\ readerPc' = [readerPc EXCEPT ![<<c, is_error>>] = "done"]
    /\ readerLine' = [readerLine EXCEPT ![<<c, is_error>>] = <<>>]
    /\ UNCHANGED <<pipe, emitted, outputFile, outputRxLive>>
    /\ UNCHANGED <<monitorVars, execVars, termVars>>
    /\ UNCHANGED <<chanVars, anVars, findingVars, docVars, actVars, reportVars, callVars>>

\* Lines 177-186 and 208-217: the event is built and sent. send waits for
\* room in the channel; when the receiver is gone it returns an error, which
\* is printed, and the loop goes on.
ReaderSend(c, is_error) ==
    /\ readerPc[<<c, is_error>>] = "send"
    /\ IF outputRxLive
       THEN /\ Len(outputChan) < MaxEvents
            /\ outputChan' = Append(outputChan,
                                    [command_id |-> c,
                                     line |-> readerLine[<<c, is_error>>],
                                     is_error |-> is_error])
       ELSE UNCHANGED outputChan
    /\ readerPc' = [readerPc EXCEPT ![<<c, is_error>>] = "read"]
    /\ readerLine' = [readerLine EXCEPT ![<<c, is_error>>] = <<>>]
    /\ UNCHANGED <<pipe, emitted, outputFile, outputRxLive>>
    /\ UNCHANGED <<monitorVars, execVars, termVars>>
    /\ UNCHANGED <<chanVars, anVars, findingVars, docVars, actVars, reportVars, callVars>>

\* Lines 170 and 201: the stream is at its end (the process has exited and
\* its lines were read), the for loop and the task end.
ReaderEnd(c, is_error) ==
    /\ readers[c]
    /\ readerPc[<<c, is_error>>] = "read"
    /\ pipe[<<c, is_error>>] = <<>>
    /\ proc[c] = "reaped"
    /\ readerPc' = [readerPc EXCEPT ![<<c, is_error>>] = "done"]
    /\ UNCHANGED <<pipe, emitted, readerLine, outputFile, outputRxLive>>
    /\ UNCHANGED <<monitorVars, outputChan, execVars, termVars>>
    /\ UNCHANGED <<chanVars, anVars, findingVars, docVars, actVars, reportVars, callVars>>

\* main.rs, lines 117-127: the forwarding task leaves its loop (its own send
\* failed) and the receiver of channel 0 is dropped.
ForwarderBreak ==
    /\ fwdRx = Some(0)
    /\ outputRxLive
    /\ outputRxLive' = FALSE
    /\ UNCHANGED <<pipe, emitted, readerPc, readerLine, outputFile>>
    /\ UNCHANGED <<monitorVars, outputChan, execVars, termVars>>
    /\ UNCHANGED <<chanVars, anVars, findingVars, docVars, actVars, reportVars, callVars>>

\* ---------------------------------------------------- the exit-wait task

\* Line 228: the process exits and process.wait() returns Ok(status), or
\* wait() returns Err(e); a process that got SIGTERM does not exit with
\* success. wait() reaps the process, so ps no longer lists it.
WaitReturn(c) ==
    /\ waitPc[c] = "waiting"
    /\ proc[c] \in {"running", "killed"}
    /\ \E res \in {"success", "failure", "wait_error"} :
        /\ proc[c] = "killed" => res # "success"
        /\ waitRes' = [waitRes EXCEPT ![c] = res]
    /\ proc' = [proc EXCEPT ![c] = "reaped"]
    /\ waitPc' = [waitPc EXCEPT ![c] = "returned"]
    /\ UNCHANGED <<commands, lock, now, readers>>
    /\ UNCHANGED <<outputChan, execVars, termVars>>
    /\ UNCHANGED pipelineVars

\* WaitSetEndTime in a critical section of its own: the guard is dropped
\* before the status is set.
WaitSetEndTimeUnlocked(c) ==
    /\ waitPc[c] = "returned"
    /\ lock = <<>>
    /\ commands' = [commands EXCEPT
                       ![FindIndex(commands, c)].end_time = Some(now)]
    /\ now' = now + 1
    /\ waitPc' = [waitPc EXCEPT ![c] = "end_set"]
    /\ UNCHANGED <<lock, proc, readers, waitRes>>
    /\ UNCHANGED <<outputChan, execVars, termVars>>
    /\ UNCHANGED pipelineVars

\* Lines 231-233 and 244-246: active_commands.lock(), find the record,
\* cmd.end_time = Some(Utc::now())
WaitSetEndTime(c) ==
    /\ waitPc[c] = "returned"
    /\ lock = <<>>
    /\ lock' = <<"exit_wait", c>>
    /\ commands' = [commands EXCEPT
                       ![FindIndex(commands, c)].end_time = Some(now)]
    /\ now' = now + 1
    /\ waitPc' = [waitPc EXCEPT ![c] = "end_set"]
    /\ UNCHANGED <<proc, readers, waitRes>>
    /\ UNCHANGED <<outputChan, execVars, termVars>>
    /\ UNCHANGED pipelineVars

\* WaitSetStatus with the guard kept when the task ends.
WaitSetStatusHolding(c) ==
    /\ waitPc[c] = "end_set"
    /\ commands' = [commands EXCEPT
                       ![FindIndex(commands, c)].status = ExitStatus(waitRes[c])]
    /\ waitPc' = [waitPc EXCEPT ![c] = "done"]
    /\ waitRes' = [waitRes EXCEPT ![c] = "none"]
    /\ UNCHANGED <<lock, now, proc, readers>>
    /\ UNCHANGED <<outputChan, execVars, termVars>>
    /\ UNCHANGED pipelineVars

\* Lines 235-240 and 247-248: cmd.status = ..., then the guard is dropped and
\* the task ends.
WaitSetStatus(c) ==
    /\ waitPc[c] = "end_set"
    /\ commands' = [commands EXCEPT
                       ![FindIndex(commands, c)].status = ExitStatus(waitRes[c])]
    /\ lock' = <<>>
    /\ waitPc' = [waitPc EXCEPT ![c] = "done"]
    /\ waitRes' = [waitRes EXCEPT ![c] = "none"]
    /\ UNCHANGED <<now, proc, readers>>
    /\ UNCHANGED <<outputChan, execVars, termVars>>
    /\ UNCHANGED pipelineVars

\* ------------------------------------------------------ terminate_command

NotFoundError == <<"Err", "Could not find running command with ID">>

\* Lines 495-500: the caller enters terminate_command(cmd_id), which reads
\* get_command(cmd_id) under the lock; a missing command and one that is not
\* Running fall through to the error of line 542.
TermCall(id) ==
    /\ termPc = "idle"
    /\ lock = <<>>
    /\ termId' = id
    /\ termWrote' = FALSE
    /\ termTarget' = 0
    /\ IF get_command(id) # None /\ get_command(id)[1].status = Running
       THEN /\ termPc' = "ps"
            /\ termCmd' = get_command(id)
            /\ termResult' = <<>>
       ELSE /\ termPc' = "idle"
            /\ termCmd' = None
            /\ termResult' = NotFoundError
    /\ UNCHANGED <<monitorVars, outputChan, execVars>>
    /\ UNCHANGED pipelineVars

\* The commands whose live process has a ps line containing the command text.
PsMatches(command) ==
    {c \in CmdIds :
        /\ proc[c] \in {"running", "killed"}
        /\ FindIndex(commands, c) # 0
        /\ Contains(PsLine(commands[FindIndex(commands, c)].command), command)}

\* TermPs marking the command Failed before it has found a process to kill.
TermPsMarkingFirst ==
    /\ termPc = "ps"
    /\ lock = <<>>
    /\ IF PsMatches(termCmd[1].command) = {}
       THEN /\ termPc' = "idle"
            /\ termResult' = NotFoundError
            /\ termCmd' = None
            /\ commands' = [commands EXCEPT
                    ![FindIndex(commands, termId)].status = TerminatedByUser,
                    ![FindIndex(commands, termId)].end_time = Some(now)]
            /\ UNCHANGED termTarget
       ELSE /\ \E t \in PsMatches(termCmd[1].command) : termTarget' = t
            /\ termPc' = "kill"
            /\ UNCHANGED <<termResult, termCmd, commands>>
    /\ UNCHANGED <<termId, termWrote>>
    /\ UNCHANGED <<lock, now, proc, readers, waitPc, waitRes, outputChan, execVars>>
    /\ UNCHANGED pipelineVars

\* Lines 502-515: ps -ef, and the first line that contains cmd.command and
\* has a numeric second column.
TermPs ==
    /\ termPc = "ps"
    /\ \E ps_ok \in BOOLEAN :
        IF ~ps_ok
        THEN /\ termPc' = "idle"
             /\ termResult' = <<"Err", "Failed to execute ps command">>
             /\ termCmd' = None
             /\ UNCHANGED termTarget
        ELSE IF PsMatches(termCmd[1].command) = {}
        THEN /\ termPc' = "idle"
             /\ termResult' = NotFoundError
             /\ termCmd' = None
             /\ UNCHANGED termTarget
        ELSE /\ \E t \in PsMatches(termCmd[1].command) : termTarget' = t
             /\ termPc' = "kill"
             /\ UNCHANGED <<termResult, termCmd>>
    /\ UNCHANGED <<termId, termWrote>>
    /\ UNCHANGED <<monitorVars, outputChan, execVars>>
    /\ UNCHANGED pipelineVars

\* Lines 517-520: kill -TERM <pid>, its result ignored.
TermKill ==
    /\ termPc = "kill"
    /\ proc' = [proc EXCEPT ![termTarget] =
                   IF proc[termTarget] = "running" THEN "killed"
                   ELSE proc[termTarget]]
    /\ termPc' = "update"
    /\ termCmd' = None
    /\ termTarget' = 0
    /\ UNCHANGED <<termId, termResult, termWrote>>
    /\ UNCHANGED <<commands, lock, now, readers, waitPc, waitRes, outputChan, execVars>>
    /\ UNCHANGED pipelineVars

\* Lines 524-527: self.active_commands.lock(), find the record,
\* cmd.status = Failed("Terminated by user")
TermSetStatus ==
    /\ termPc = "update"
    /\ lock = <<>>
    /\ lock' = <<"terminate">>
    /\ commands' = [commands EXCEPT
                       ![FindIndex(commands, termId)].status = TerminatedByUser]
    /\ termPc' = "status_set"
    /\ termWrote' = TRUE
    /\ UNCHANGED <<termId, termCmd, termTarget, termResult>>
    /\ UNCHANGED <<now, proc, readers, waitPc, waitRes, outputChan, execVars>>
    /\ UNCHANGED pipelineVars

\* Lines 528-532: cmd.end_time = Some(Utc::now()), and the guard is dropped.
TermSetEndTime ==
    /\ termPc = "status_set"
    /\ commands' = [commands EXCEPT
                       ![FindIndex(commands, termId)].end_time = Some(now)]
    /\ now' = now + 1
    /\ lock' = <<>>
    /\ termPc' = "return"
    /\ UNCHANGED <<termId, termCmd, termTarget, termResult, termWrote>>
    /\ UNCHANGED <<proc, readers, waitPc, waitRes, outputChan, execVars>>
    /\ UNCHANGED pipelineVars

\* Line 534: return Ok(())
TermReturn ==
    /\ termPc = "return"
    /\ termPc' = "idle"
    /\ termResult' = <<"Ok">>
    /\ UNCHANGED <<termId, termCmd, termTarget, termWrote>>
    /\ UNCHANGED <<monitorVars, outputChan, execVars>>
    /\ UNCHANGED pipelineVars

\* ------------------------------------------- wait_for_command_completion

\* The test made at line 485 with attempts > max_attempts.
TimedOutLate(n, max) == n > max

\* Line 485: attempts >= max_attempts
TimedOut(n, max) == n >= max

\* Lines 469-471: the caller enters wait_for_command_completion(cmd_id,
\* timeout_seconds); attempts = 0 and max_attempts = timeout_seconds.
WaitForCall(id, timeout_seconds) ==
    /\ wfcPc = "idle"
    /\ wfcPc' = "poll"
    /\ wfcCmdId' = id
    /\ max_attempts' = timeout_seconds
    /\ attempts' = 0
    /\ polls' = 0
    /\ wfcResult' = None
    /\ UNCHANGED <<summaryId, summaryResult>>
    /\ UNCHANGED <<monitorVars, outputChan, execVars, termVars>>
    /\ UNCHANGED <<chanVars, anVars, findingVars, docVars, actVars, reportVars, streamVars>>

\* Lines 474-488: get_command(cmd_id) under the lock; true for a status that
\* is not Running, false for a missing command; else attempts += 1 and false
\* when attempts >= max_attempts, else the task goes to sleep.
WaitForPoll ==
    /\ wfcPc = "poll"
    /\ lock = <<>>
    /\ polls' = polls + 1
    /\ IF get_command(wfcCmdId) = None
       THEN /\ wfcResult' = Some(FALSE)
            /\ wfcPc' = "idle"
            /\ UNCHANGED attempts
       ELSE IF get_command(wfcCmdId)[1].status # Running
       THEN /\ wfcResult' = Some(TRUE)
            /\ wfcPc' = "idle"
            /\ UNCHANGED attempts
       ELSE /\ attempts' = attempts + 1
            /\ IF TimedOut(attempts + 1, max_attempts)
               THEN wfcResult' = Some(FALSE) /\ wfcPc' = "idle"
               ELSE wfcPc' = "sleep" /\ UNCHANGED wfcResult
    /\ UNCHANGED <<wfcCmdId, max_attempts, summaryId, summaryResult>>
    /\ UNCHANGED <<monitorVars, outputChan, execVars, termVars>>
    /\ UNCHANGED <<chanVars, anVars, findingVars, docVars, actVars, reportVars, streamVars>>

\* Line 491: tokio::time::sleep(1 s) is over and the loop goes round.
WaitForWake ==
    /\ wfcPc = "sleep"
    /\ wfcPc' = "poll"
    /\ UNCHANGED <<wfcCmdId, max_attempts, attempts, polls, wfcResult,
                   summaryId, summaryResult>>
    /\ UNCHANGED <<monitorVars, outputChan, execVars, termVars>>
    /\ UNCHANGED <<chanVars, anVars, findingVars, docVars, actVars, reportVars, streamVars>>

\* ------------------------------------------------- the registry queries

\* get_active_commands without the filter.
get_active_commands_unfiltered == commands

\* get_active_commands, lines 352-359: the records whose status is Running,
\* cloned under the lock in the order of the registry.
get_active_commands ==
    SelectSeq(commands, LAMBDA cmd : cmd.status = Running)

\* get_all_commands, lines 361-365: a clone of the registry.
get_all_commands == commands

\* update_command_summary setting the summary of the first record.
SummaryTargetFirst(id) == IF commands = <<>> THEN 0 ELSE 1

\* Line 394: commands.iter_mut().find(|cmd| cmd.id == id)
SummaryTarget(id) == FindIndex(commands, id)

\* update_command_summary(id, summary), lines 392-400, called by a client
\* of the monitor (main.rs, line 233).
UpdateSummaryCall(id, summary) ==
    /\ lock = <<>>
    /\ summaryId' = id
    /\ IF SummaryTarget(id) # 0
       THEN /\ commands' = [commands EXCEPT
                               ![SummaryTarget(id)].results_summary = Some(summary)]
            /\ summaryResult' = <<"Ok">>
       ELSE /\ UNCHANGED commands
            /\ summaryResult' = <<"Err", "Command not found">>
    /\ UNCHANGED <<wfcPc, wfcCmdId, max_attempts, attempts, polls, wfcResult>>
    /\ UNCHANGED <<lock, now, proc, readers, waitPc, waitRes>>
    /\ UNCHANGED <<outputChan, execVars, termVars>>
    /\ UNCHANGED <<chanVars, anVars, findingVars, docVars, actVars, reportVars, streamVars>>

\* ----------------------------------------------- the two event channels

\* get_output_receiver (lines 331-336): a new channel is made and its sender
\* dropped at once, its receiver is put in output_channel.1 and the receiver
\* that was there is returned. Channel 0 is the one CommandMonitor::new made,
\* to whose sender (output_channel.0, never replaced) the stream readers send.
GetOutputReceiver ==
    /\ outputSlot' = outputMade + 1
    /\ outputMade' = outputMade + 1

\* main.rs, line 64: let mut output_rx = command_monitor.get_output_receiver()
MainGetOutputRx ==
    /\ fwdRx = None
    /\ fwdRx' = Some(outputSlot)
    /\ GetOutputReceiver
    /\ UNCHANGED <<fwdGot, anVars, findingVars>>
    /\ UNCHANGED <<monitorVars, outputChan, execVars, termVars>>
    /\ UNCHANGED downstreamVars

\* main.rs, lines 65-68 and 94-98: OutputAnalyzer::new(monitor,
\* command_monitor.get_output_receiver()), and the task that runs start().
NewAnalyzer ==
    /\ anRx = None
    /\ anRx' = Some(outputSlot)
    /\ GetOutputReceiver
    /\ UNCHANGED <<anPc, anEvent, buffer, last_analyzed, instant, anPending, passAt>>
    /\ UNCHANGED <<fwdRx, fwdGot, findingVars>>
    /\ UNCHANGED <<monitorVars, outputChan, execVars, termVars>>
    /\ UNCHANGED downstreamVars

\* main.rs, lines 117-127: the forwarding task receives an event. A receiver
\* of a channel other than channel 0 gets None at once and the task ends.
ForwarderRecv ==
    /\ fwdRx # None
    /\ fwdRx[1] = 0
    /\ outputChan # <<>>
    /\ fwdGot' = Append(fwdGot, Head(outputChan))
    /\ outputChan' = Tail(outputChan)
    /\ UNCHANGED <<outputSlot, outputMade, fwdRx, anVars, findingVars>>
    /\ UNCHANGED <<monitorVars, execVars, termVars>>
    /\ UNCHANGED downstreamVars

\* ------------------------------------------------- OutputAnalyzer::start

\* Instant::now() moves on.
Tick ==
    /\ instant < MaxInstant
    /\ instant' = instant + TickSecs
    /\ UNCHANGED <<anRx, anPc, anEvent, buffer, last_analyzed, anPending, passAt>>
    /\ UNCHANGED <<chanVars, findingVars>>
    /\ UNCHANGED <<monitorVars, outputChan, execVars, termVars>>
    /\ UNCHANGED downstreamVars

\* ShouldAnalyze with one timestamp for all commands.
ShouldAnalyzeAnyCommand(command_id) ==
    \A c \in CmdIds :
        last_analyzed[c] # None => instant - last_analyzed[c][1] > ThrottleSecs

\* Lines 86-90: should_analyze
ShouldAnalyze(command_id) ==
    IF last_analyzed[command_id] # None
    THEN instant - last_analyzed[command_id][1] > ThrottleSecs
    ELSE TRUE

\* Lines 80-92: an event is received, its line is pushed on the buffer of its
\* command, and the pass begins when should_analyze holds.
AnRecv ==
    /\ anPc = "recv"
    /\ anRx # None
    /\ anRx[1] = 0
    /\ outputChan # <<>>
    /\ LET output == Head(outputChan)
       IN  /\ outputChan' = Tail(outputChan)
           /\ buffer' = [buffer EXCEPT
                            ![output.command_id] = Append(@, output.line)]
           /\ IF ShouldAnalyze(output.command_id)
              THEN /\ anPc' = "analyze"
                   /\ anEvent' = output.command_id
                   /\ passAt' = [passAt EXCEPT
                                    ![output.command_id] = Some(instant)]
              ELSE UNCHANGED <<anPc, anEvent, passAt>>
    /\ UNCHANGED <<anRx, last_analyzed, instant, anPending>>
    /\ UNCHANGED <<chanVars, findingVars>>
    /\ UNCHANGED <<monitorVars, execVars, termVars>>
    /\ UNCHANGED downstreamVars

\* Lines 80 and 98-99: recv() gives None (every sender of the channel is
\* gone), the loop ends and start returns Ok.
AnRecvClosed ==
    /\ anPc = "recv"
    /\ anRx # None
    /\ anRx[1] # 0
    /\ anPc' = "stopped"
    /\ UNCHANGED <<anRx, anEvent, buffer, last_analyzed, instant, anPending, passAt>>
    /\ UNCHANGED <<chanVars, findingVars>>
    /\ UNCHANGED <<monitorVars, outputChan, execVars, termVars>>
    /\ UNCHANGED downstreamVars

\* analyze_command_output looking at the newest line of the buffer only.
analyze_newest_line(command_id) ==
    IF get_command(command_id) = None THEN <<>>
    ELSE IF buffer[command_id] = <<>> THEN <<>>
    ELSE PassFindings(get_command(command_id)[1].command_type,
                      <<buffer[command_id][Len(buffer[command_id])]>>,
                      command_id)

\* analyze_command_output(command_id), lines 103-148: nothing for a command
\* that is not registered or has no lines in the buffer, else the findings
\* of the analyzers of the command's type.
analyze_command_output(command_id) ==
    IF get_command(command_id) = None THEN <<>>
    ELSE IF buffer[command_id] = <<>> THEN <<>>
    ELSE PassFindings(get_command(command_id)[1].command_type,
                      buffer[command_id], command_id)

\* Lines 103-145: analyze_command_output reads the command (get_command, under
\* the lock) and the buffer, and the analyzers of the command's type look
\* through the joined buffer.
AnAnalyze ==
    /\ anPc = "analyze"
    /\ lock = <<>>
    /\ anPending' = analyze_command_output(anEvent)
    /\ anPc' = IF anPending' = <<>> THEN "stamp" ELSE "add"
    /\ UNCHANGED <<anRx, anEvent, buffer, last_analyzed, instant, passAt>>
    /\ UNCHANGED <<chanVars, findingVars>>
    /\ UNCHANGED <<monitorVars, outputChan, execVars, termVars>>
    /\ UNCHANGED downstreamVars

\* add_finding putting the finding in the place of the command's findings.
AnAddFindingReplacing ==
    /\ anPc = "add"
    /\ lock = <<>>
    /\ LET finding == anPending[1].finding
           i == FindIndex(commands, finding.command_id)
       IN  IF i # 0
           THEN commands' = [commands EXCEPT ![i].findings = <<finding>>]
           ELSE UNCHANGED commands
    /\ anPc' = "send"
    /\ UNCHANGED <<lock, now, proc, readers, waitPc, waitRes>>
    /\ UNCHANGED <<anRx, anEvent, buffer, last_analyzed, instant, anPending, passAt>>
    /\ UNCHANGED <<chanVars, findingVars>>
    /\ UNCHANGED <<outputChan, execVars, termVars>>
    /\ UNCHANGED downstreamVars

\* add_finding, lines 370-375: the finding is pushed on the findings of the
\* first record with its command_id, if there is one.
AnAddFinding ==
    /\ anPc = "add"
    /\ lock = <<>>
    /\ LET finding == anPending[1].finding
           i == FindIndex(commands, finding.command_id)
       IN  IF i # 0
           THEN commands' = [commands EXCEPT
                                ![i].findings = Append(@, finding)]
           ELSE UNCHANGED commands
    /\ anPc' = "send"
    /\ UNCHANGED <<lock, now, proc, readers, waitPc, waitRes>>
    /\ UNCHANGED <<anRx, anEvent, buffer, last_analyzed, instant, anPending, passAt>>
    /\ UNCHANGED <<chanVars, findingVars>>
    /\ UNCHANGED <<outputChan, execVars, termVars>>
    /\ UNCHANGED downstreamVars

\* add_finding, lines 378-388: the finding is sent on the finding channel;
\* when the receiver is gone the send fails, add_finding returns the error
\* and the `?` of the analyzer ends start with it.
AnSendFinding ==
    /\ anPc = "send"
    /\ IF findingRxLive
       THEN /\ findingChan' = Append(findingChan, anPending[1].finding)
            /\ IF anPending[1].summary # None
               THEN anPc' = "summary" /\ UNCHANGED anPending
               ELSE /\ anPending' = Tail(anPending)
                    /\ anPc' = IF Tail(anPending) = <<>> THEN "stamp" ELSE "add"
       ELSE /\ anPc' = "failed"
            /\ anPending' = <<>>
            /\ UNCHANGED findingChan
    /\ UNCHANGED <<anRx, anEvent, buffer, last_analyzed, instant, passAt>>
    /\ UNCHANGED <<chanVars, findingRxLive>>
    /\ UNCHANGED <<monitorVars, outputChan, execVars, termVars>>
    /\ UNCHANGED downstreamVars

\* update_command_summary, lines 392-400, as the analyzers call it after
\* add_finding; "Command not found" ends start as a failed send does.
AnUpdateSummary ==
    /\ anPc = "summary"
    /\ lock = <<>>
    /\ LET i == FindIndex(commands, anEvent)
       IN  IF i # 0
           THEN /\ commands' = [commands EXCEPT
                                   ![i].results_summary = anPending[1].summary]
                /\ anPending' = Tail(anPending)
                /\ anPc' = IF Tail(anPending) = <<>> THEN "stamp" ELSE "add"
           ELSE /\ anPc' = "failed"
                /\ anPending' = <<>>
                /\ UNCHANGED commands
    /\ UNCHANGED <<lock, now, proc, readers, waitPc, waitRes>>
    /\ UNCHANGED <<anRx, anEvent, buffer, last_analyzed, instant, passAt>>
    /\ UNCHANGED <<chanVars, findingVars>>
    /\ UNCHANGED <<outputChan, execVars, termVars>>
    /\ UNCHANGED downstreamVars

\* Line 94: self.last_analyzed.insert(command_id, Instant::now())
AnStamp ==
    /\ anPc = "stamp"
    /\ last_analyzed' = [last_analyzed EXCEPT ![anEvent] = Some(instant)]
    /\ anPc' = "recv"
    /\ anEvent' = 0
    /\ UNCHANGED <<anRx, buffer, instant, anPending, passAt>>
    /\ UNCHANGED <<chanVars, findingVars>>
    /\ UNCHANGED <<monitorVars, outputChan, execVars, termVars>>
    /\ UNCHANGED downstreamVars

\* The task that holds the receiver of the finding channel ends and drops it
\* (main.rs, lines 100-104: auto_doc.start() has returned).
FindingReceiverDropped ==
    /\ findingRxLive
    /\ findingRxLive' = FALSE
    /\ UNCHANGED <<findingChan, chanVars, anVars>>
    /\ UNCHANGED <<monitorVars, outputChan, execVars, termVars>>
    /\ UNCHANGED downstreamVars

\* ------------------------------------------- AutoDocumentation::start

\* Lines 91-95: start is called; running becomes true. (It stays true when
\* start returns an error, so a later call returns at once.)
DocStart ==
    /\ docPc = "idle"
    /\ docPc' = "recv"
    /\ UNCHANGED <<docFinding, docCur, docActions, documented_findings, docOrder,
                   docFiles, docSeen, nextDocId, nextActionId, updResult,
                   followUpChan>>
    /\ UNCHANGED <<monitorVars, outputChan, execVars, termVars>>
    /\ UNCHANGED <<chanVars, anVars, findingVars, actVars>>
    /\ UNCHANGED <<reportVars, streamVars, callVars>>

\* Line 98: self.finding_rx.recv().await returns a finding.
DocRecv ==
    /\ docPc = "recv"
    /\ findingChan # <<>>
    /\ docFinding' = Some(Head(findingChan))
    /\ findingChan' = Tail(findingChan)
    /\ docSeen' = docSeen + 1
    /\ docPc' = "document"
    /\ UNCHANGED <<docCur, docActions, documented_findings, docOrder, docFiles,
                   nextDocId, nextActionId, updResult, followUpChan>>
    /\ UNCHANGED <<monitorVars, outputChan, execVars, termVars>>
    /\ UNCHANGED <<chanVars, anVars, findingRxLive, actVars>>
    /\ UNCHANGED <<reportVars, streamVars, callVars>>

\* Line 100, document_finding(finding).await? (lines 118-156): the command
\* is looked up, the finding is saved to its file and stored in the map. A
\* command that is not found and a file that cannot be written make
\* document_finding return an error, with which the `?` ends start.
DocDocument(outcome) ==
    /\ docPc = "document"
    /\ lock = <<>>
    /\ LET finding == docFinding[1]
           command == get_command(finding.command_id)
       IN  IF command = None
           THEN /\ docPc' = "failed"
                /\ docFinding' = None
                /\ UNCHANGED <<docCur, documented_findings, docOrder, docFiles,
                               nextDocId>>
           ELSE LET documented ==
                        DocumentedFinding(DocIdText(nextDocId), finding, command[1])
                IN  /\ nextDocId' = nextDocId + 1
                    /\ docFiles' = [docFiles EXCEPT
                          ![nextDocId] = SavedFile(@, documented, outcome)]
                    /\ docFinding' = None
                    /\ IF outcome = "saved"
                       THEN /\ documented_findings' =
                                [documented_findings EXCEPT
                                    ![nextDocId] = Some(documented)]
                            /\ docOrder' \in Orders({docOrder[i] : i \in DOMAIN docOrder}
                                                    \cup {nextDocId})
                            /\ docCur' = nextDocId
                            /\ docPc' = "generate"
                       ELSE /\ docPc' = "failed"
                            /\ UNCHANGED <<docCur, documented_findings, docOrder>>
    /\ UNCHANGED <<docActions, docSeen, nextActionId, updResult, followUpChan>>
    /\ UNCHANGED <<monitorVars, outputChan, execVars, termVars>>
    /\ UNCHANGED <<chanVars, anVars, findingVars, actVars>>
    /\ UNCHANGED <<reportVars, streamVars, callVars>>

\* Line 103, generate_follow_up_actions(&documented).await?: the actions to
\* queue, or the error of the subdomains file, with which the `?` ends start.
DocGenerate(file_ok) ==
    /\ docPc = "generate"
    /\ LET r == generate_follow_up_actions(documented_findings[docCur][1],
                                           nextActionId, file_ok)
       IN  IF r[1] = "Ok"
           THEN /\ docActions' = r[2]
                /\ nextActionId' = nextActionId + Len(r[2])
                /\ docPc' = "send"
                /\ UNCHANGED docCur
           ELSE /\ docPc' = "failed"
                /\ docCur' = 0
                /\ UNCHANGED <<docActions, nextActionId>>
    /\ UNCHANGED <<docFinding, documented_findings, docOrder, docFiles, docSeen,
                   nextDocId, updResult, followUpChan>>
    /\ UNCHANGED <<monitorVars, outputChan, execVars, termVars>>
    /\ UNCHANGED <<chanVars, anVars, findingVars, actVars>>
    /\ UNCHANGED <<reportVars, streamVars, callVars>>

\* Lines 106-110: the next action is sent on the follow-up channel; after
\* the last one start is back at recv.
DocSend ==
    /\ docPc = "send"
    /\ followUpChan' = Append(followUpChan, Head(docActions))
    /\ docActions' = Tail(docActions)
    /\ IF Tail(docActions) = <<>>
       THEN docPc' = "recv" /\ docCur' = 0
       ELSE UNCHANGED <<docPc, docCur>>
    /\ UNCHANGED <<docFinding, documented_findings, docOrder, docFiles, docSeen,
                   nextDocId, nextActionId, updResult>>
    /\ UNCHANGED <<monitorVars, outputChan, execVars, termVars>>
    /\ UNCHANGED <<chanVars, anVars, findingVars, actVars>>
    /\ UNCHANGED <<reportVars, streamVars, callVars>>

\* CommandMonitor::add_finding(finding), lines 368-389, called by a client
\* of the monitor: the finding is appended to its command's list, when the
\* command is registered, and sent on the finding channel.
AddFinding(finding) ==
    /\ lock = <<>>
    /\ findingRxLive
    /\ LET i == FindIndex(commands, finding.command_id)
       IN  IF i # 0
           THEN commands' = [commands EXCEPT ![i].findings = Append(@, finding)]
           ELSE UNCHANGED commands
    /\ findingChan' = Append(findingChan, finding)
    /\ UNCHANGED <<lock, now, proc, readers, waitPc, waitRes>>
    /\ UNCHANGED <<outputChan, execVars, termVars>>
    /\ UNCHANGED <<chanVars, anVars, findingRxLive, downstreamVars>>

\* add_follow_up_to_finding(finding_id, action), lines 384-396, finding_id
\* being the id of document number d. It takes &mut self, as start does, so
\* it is called while start does not run.
AddFollowUp(d, action, outcome) ==
    /\ docPc \in {"idle", "failed"}
    /\ IF documented_findings[d] # None
       THEN LET finding == [documented_findings[d][1] EXCEPT
                               !.follow_up_actions = Append(@, action)]
            IN  /\ documented_findings' =
                      [documented_findings EXCEPT ![d] = Some(finding)]
                /\ docFiles' = [docFiles EXCEPT
                                  ![d] = SavedFile(@, finding, outcome)]
       ELSE UNCHANGED <<documented_findings, docFiles>>
    /\ UNCHANGED <<docPc, docFinding, docCur, docActions, docOrder, docSeen,
                   nextDocId, nextActionId, updResult, followUpChan>>
    /\ UNCHANGED <<monitorVars, outputChan, execVars, termVars>>
    /\ UNCHANGED <<chanVars, anVars, findingVars, actVars>>
    /\ UNCHANGED <<reportVars, streamVars, callVars>>

\* update_finding_with_action_result(action), lines 356-381; it takes
\* &mut self, as start does, so it is called while start does not run.
UpdateCall(action, outcome) ==
    /\ docPc \in {"idle", "failed"}
    /\ LET d == FirstOwner(documented_findings, docOrder, action.id)
           merged == MergedFindings(documented_findings, docOrder, action)
       IN  /\ documented_findings' = merged
           /\ IF d # 0
              THEN /\ docFiles' = [docFiles EXCEPT
                                     ![d] = SavedFile(@, merged[d][1], outcome)]
                   /\ updResult' = IF outcome = "saved" THEN <<"Ok">>
                                   ELSE <<"Err", "io">>
              ELSE /\ UNCHANGED docFiles
                   /\ updResult' = <<"Err", "no match">>
    /\ UNCHANGED <<docPc, docFinding, docCur, docActions, docOrder, docSeen,
                   nextDocId, nextActionId, followUpChan>>
    /\ UNCHANGED <<monitorVars, outputChan, execVars, termVars>>
    /\ UNCHANGED <<chanVars, anVars, findingVars, actVars>>
    /\ UNCHANGED <<reportVars, streamVars, callVars>>

\* ---------------------------------------------- ActionExecutor::start

\* main.rs, line 87: the max_concurrent given to ActionExecutor::new.
max_concurrent == 2

\* Lines 38-43: start is called; running becomes true.
ActStart ==
    /\ actPc = "idle"
    /\ actPc' = "recv"
    /\ UNCHANGED <<actCur, actSeen, current_executing, actTasks, resultChan>>
    /\ UNCHANGED <<monitorVars, outputChan, execVars, termVars>>
    /\ UNCHANGED <<chanVars, anVars, findingVars, docVars>>
    /\ UNCHANGED <<reportVars, streamVars, callVars>>

\* Line 48 with a condition that never holds.
IsFinishedNever(status) == FALSE

\* Line 48: action.status == Completed || action.status == Failed
IsFinished(status) == status \in {"Completed", "Failed"}

\* Lines 46-50: self.action_rx.recv().await returns an action; one that is
\* Completed or Failed is skipped.
ActRecv ==
    /\ actPc = "recv"
    /\ followUpChan # <<>>
    /\ followUpChan' = Tail(followUpChan)
    /\ actSeen' = actSeen + 1
    /\ IF IsFinished(Head(followUpChan).status)
       THEN UNCHANGED <<actPc, actCur>>
       ELSE /\ actCur' = Some(Head(followUpChan))
            /\ actPc' = "admit"
    /\ UNCHANGED <<current_executing, actTasks, resultChan>>
    /\ UNCHANGED <<docPc, docFinding, docCur, docActions, documented_findings,
                   docOrder, docFiles, docSeen, nextDocId, nextActionId,
                   updResult>>
    /\ UNCHANGED <<monitorVars, outputChan, execVars, termVars>>
    /\ UNCHANGED <<chanVars, anVars, findingVars>>
    /\ UNCHANGED <<reportVars, streamVars, callVars>>

\* Line 53 with a condition that never holds.
MustWaitNever == FALSE

\* Line 53: self.current_executing >= self.max_concurrent
MustWait == current_executing >= max_concurrent

\* Lines 53-54: the limit is reached; start sleeps for 500 ms.
ActSleep ==
    /\ actPc = "admit"
    /\ MustWait
    /\ actPc' = "sleep"
    /\ UNCHANGED <<actCur, actSeen, current_executing, actTasks, resultChan>>
    /\ UNCHANGED <<monitorVars, outputChan, execVars, termVars>>
    /\ UNCHANGED <<chanVars, anVars, findingVars, docVars>>
    /\ UNCHANGED <<reportVars, streamVars, callVars>>

\* Line 54: the sleep is over; the condition of the loop is tested again.
ActWake ==
    /\ actPc = "sleep"
    /\ actPc' = "admit"
    /\ UNCHANGED <<actCur, actSeen, current_executing, actTasks, resultChan>>
    /\ UNCHANGED <<monitorVars, outputChan, execVars, termVars>>
    /\ UNCHANGED <<chanVars, anVars, findingVars, docVars>>
    /\ UNCHANGED <<reportVars, streamVars, callVars>>

\* Lines 57-65 and 92: the count is incremented and a task is spawned with a
\* copy of the action; start is back at recv.
ActAdmit ==
    /\ actPc = "admit"
    /\ ~MustWait
    /\ current_executing' = current_executing + 1
    /\ actTasks' = Append(actTasks, [action |-> actCur[1], pc |-> "spawned",
                                     process |-> "none"])
    /\ actCur' = None
    /\ actPc' = "recv"
    /\ UNCHANGED <<actSeen, resultChan>>
    /\ UNCHANGED <<monitorVars, outputChan, execVars, termVars>>
    /\ UNCHANGED <<chanVars, anVars, findingVars, docVars>>
    /\ UNCHANGED <<reportVars, streamVars, callVars>>

\* Line 67: the task sets the status of its copy to InProgress.
TaskBegin(t) ==
    /\ actTasks[t].pc = "spawned"
    /\ actTasks' = [actTasks EXCEPT ![t].action.status = "InProgress",
                                    ![t].pc = "running"]
    /\ UNCHANGED <<actPc, actCur, actSeen, current_executing, resultChan>>
    /\ UNCHANGED <<monitorVars, outputChan, execVars, termVars>>
    /\ UNCHANGED <<chanVars, anVars, findingVars, docVars>>
    /\ UNCHANGED <<reportVars, streamVars, callVars>>

\* What running `bash -c command` can come to.
RunOutcomes == {"exit_zero", "exit_nonzero", "not_started"}

output_stdout == <<"=","=","="," ","S","T","D","O","U","T"," ","=","=","=","\\","n","o","k","\\","n">>
output_stderr == <<"=","=","="," ","S","T","D","E","R","R"," ","=","=","=","\\","n","f","a","i","l","e","d">>
output_error == <<"E","R","R","O","R",":"," ","F","a","i","l","e","d"," ","t","o"," ","e","x","e","c","u","t","e"," ","c","o","m","m","a","n","d">>

\* execute_command(command), lines 101-131: Ok with the captured output
\* whatever the exit code is, Err when the process cannot be started.
execute_command(outcome) ==
    IF outcome = "exit_zero" THEN <<"Ok", output_stdout>>
    ELSE IF outcome = "exit_nonzero" THEN <<"Ok", output_stderr>>
    ELSE <<"Err">>

\* Lines 83-86 with the status Failed.
WithoutCommandFailed(action) == [action EXCEPT !.status = "Failed"]

\* Lines 83-86: there is no command; the copy is marked Completed.
WithoutCommand(action) == [action EXCEPT !.status = "Completed"]

\* Lines 70-82 with the status left as line 67 set it.
WithCommandUnfinished(action, outcome) ==
    IF execute_command(outcome)[1] = "Ok"
    THEN [action EXCEPT !.result = Some(execute_command(outcome)[2])]
    ELSE [action EXCEPT !.result = Some(output_error)]

\* Lines 70-82: the command is run; Ok gives Completed and the output, Err
\* gives Failed and the text of the error.
WithCommand(action, outcome) ==
    IF execute_command(outcome)[1] = "Ok"
    THEN [action EXCEPT !.result = Some(execute_command(outcome)[2]),
                        !.status = "Completed"]
    ELSE [action EXCEPT !.result = Some(output_error),
                        !.status = "Failed"]

\* Lines 70-86: the command, when there is one, is run, and the status and
\* the result of the copy are set. `process` tells what the process the
\* task ran came to, "none" when it ran none.
TaskRun(t, outcome) ==
    /\ actTasks[t].pc = "running"
    /\ actTasks' =
         [actTasks EXCEPT
            ![t].pc = "done",
            ![t].process = IF actTasks[t].action.command = None THEN "none"
                           ELSE outcome,
            ![t].action =
                IF @.command = None THEN WithoutCommand(@)
                ELSE WithCommand(@, outcome)]
    /\ UNCHANGED <<actPc, actCur, actSeen, current_executing, resultChan>>
    /\ UNCHANGED <<monitorVars, outputChan, execVars, termVars>>
    /\ UNCHANGED <<chanVars, anVars, findingVars, docVars>>
    /\ UNCHANGED <<reportVars, streamVars, callVars>>

\* Lines 89-91: the copy is sent on the result channel and the task ends.
TaskSend(t) ==
    /\ actTasks[t].pc = "done"
    /\ resultChan' = Append(resultChan, actTasks[t].action)
    /\ actTasks' = [actTasks EXCEPT ![t].pc = "sent"]
    /\ UNCHANGED <<actPc, actCur, actSeen, current_executing>>
    /\ UNCHANGED <<monitorVars, outputChan, execVars, termVars>>
    /\ UNCHANGED <<chanVars, anVars, findingVars, docVars>>
    /\ UNCHANGED <<reportVars, streamVars, callVars>>

\* follow_up_tx.send(action), as at auto_documentation.rs 107: an action is
\* put on the follow-up channel.
Enqueue(action) ==
    /\ followUpChan' = Append(followUpChan, action)
    /\ UNCHANGED <<docPc, docFinding, docCur, docActions, documented_findings,
                   docOrder, docFiles, docSeen, nextDocId, nextActionId,
                   updResult>>
    /\ UNCHANGED <<monitorVars, outputChan, execVars, termVars>>
    /\ UNCHANGED <<chanVars, anVars, findingVars, actVars>>
    /\ UNCHANGED <<reportVars, streamVars, callVars>>

\* ------------------------------------------------------------ the reports

\* The order both reports list the severities in
\* (auto_documentation.rs 440-446, command_monitor.rs 437-443).
SeverityGroups == <<"Critical", "High", "Medium", "Low", "Info">>

HasAnySeverity(finding, severity) == TRUE

\* The arm of match finding.severity (auto_documentation.rs 414-420) and
\* the filter f.severity == *sev (command_monitor.rs 444).
HasSeverity(finding, severity) == finding.severity = severity

\* Lines 407-421: the vector the findings of one severity are pushed to,
\* in the order documented_findings.values() yields them.
SeverityGroup(findings, order, severity) ==
    LET Pushed(d) == HasSeverity(findings[d][1], severity)
    IN  SelectSeq(order, Pushed)

\* Lines 451-455: the lines written for one finding.
SummaryEntry(finding) ==
    [ heading |-> finding.title \o <<" ","(">> \o finding.id \o <<")">>,
      description |-> finding.description ]

RECURSIVE SummarySections(_, _, _)
\* Lines 440-457: a section for every group that is not empty, from the
\* k-th severity on.
SummarySections(findings, order, k) ==
    IF k > Len(SeverityGroups) THEN <<>>
    ELSE LET group == SeverityGroup(findings, order, SeverityGroups[k])
         IN  (IF group = <<>> THEN <<>>
              ELSE << [ severity |-> SeverityGroups[k],
                        entries |-> [i \in DOMAIN group |->
                                       SummaryEntry(findings[group[i]][1])] ] >>)
             \o SummarySections(findings, order, k + 1)

\* generate_summary_report, lines 399-460: the overview table and the
\* sections.
SummaryReport(findings, order) ==
    LET counts == [k \in DOMAIN SeverityGroups |->
                     Len(SeverityGroup(findings, order, SeverityGroups[k]))]
    IN  [ counts |-> counts,
          total |-> counts[1] + counts[2] + counts[3] + counts[4] + counts[5],
          sections |-> SummarySections(findings, order, 1) ]

\* generate_summary_report(&self, output_file). It borrows the component,
\* so it runs when start is not running. outcome: whether the file opens
\* and every writeln! succeeds.
SummaryReportCall(outcome) ==
    /\ docPc \in {"idle", "failed"}
    /\ summaryReport' =
         CASE outcome = "saved" ->
                Some(<<"written", SummaryReport(documented_findings, docOrder)>>)
           [] outcome = "open_failed" -> summaryReport
           [] OTHER -> Some(<<"partial">>)
    /\ UNCHANGED findingsReport
    /\ UNCHANGED <<docVars, actVars, streamVars, callVars>>
    /\ UNCHANGED <<monitorVars, outputChan, execVars, termVars>>
    /\ UNCHANGED <<chanVars, anVars, findingVars>>

RECURSIVE CollectFindings(_, _)
\* command_monitor.rs 407-412: (cmd, finding) for every finding of every
\* command from the k-th on, in registry order.
CollectFindings(cmds, k) ==
    IF k > Len(cmds) THEN <<>>
    ELSE [i \in DOMAIN cmds[k].findings |->
            [cmd |-> cmds[k], finding |-> cmds[k].findings[i]]]
         \o CollectFindings(cmds, k + 1)

\* Lines 416-424: severity_order
severity_order(s) ==
    CASE s = "Critical" -> 0
      [] s = "High" -> 1
      [] s = "Medium" -> 2
      [] s = "Low" -> 3
      [] s = "Info" -> 4

RECURSIVE SortBySeverity(_)
\* Lines 415-427: sort_by is stable; a pair goes behind every pair that
\* does not compare greater.
SortBySeverity(pairs) ==
    IF pairs = <<>> THEN <<>>
    ELSE LET sorted == SortBySeverity(SubSeq(pairs, 1, Len(pairs) - 1))
             last == pairs[Len(pairs)]
             NotGreater(p) == severity_order(p.finding.severity)
                                <= severity_order(last.finding.severity)
             Greater(p) == ~NotGreater(p)
         IN  SelectSeq(sorted, NotGreater) \o <<last>>
             \o SelectSeq(sorted, Greater)

\* Lines 451-456: the lines written for one finding. The random id and the
\* timestamp are left out, as in create_finding.
FindingEntry(pair) ==
    [ title |-> pair.finding.title,
      description |-> pair.finding.description,
      command |-> pair.cmd.command,
      raw_output |-> pair.finding.raw_output ]

RECURSIVE FindingSections(_, _)
\* Lines 437-460: a section for every severity that has findings, from the
\* k-th severity on.
FindingSections(all_findings, k) ==
    IF k > Len(SeverityGroups) THEN <<>>
    ELSE LET Kept(p) == HasSeverity(p.finding, SeverityGroups[k])
             findings == SelectSeq(all_findings, Kept)
         IN  (IF findings = <<>> THEN <<>>
              ELSE << [ severity |-> SeverityGroups[k],
                        count |-> Len(findings),
                        entries |-> [i \in DOMAIN findings |->
                                       FindingEntry(findings[i])] ] >>)
             \o FindingSections(all_findings, k + 1)

\* generate_findings_report, lines 403-465. It holds the registry lock
\* from its first line to its return and never suspends.
FindingsReportCall(outcome) ==
    /\ lock = <<>>
    /\ findingsReport' =
         CASE outcome = "saved" ->
                Some(<<"written",
                       FindingSections(SortBySeverity(CollectFindings(commands, 1)), 1)>>)
           [] outcome = "open_failed" -> findingsReport
           [] OTHER -> Some(<<"partial">>)
    /\ UNCHANGED summaryReport
    /\ UNCHANGED <<docVars, actVars, streamVars, callVars>>
    /\ UNCHANGED <<monitorVars, outputChan, execVars, termVars>>
    /\ UNCHANGED <<chanVars, anVars, findingVars>>

\* --------------------------------------------------------- specifications

ExecSteps ==
    \/ ExecPush
    \/ ExecOpenFile
    \/ ExecSpawn
    \/ ExecSpawnTasks

WaitSteps(c) ==
    \/ WaitReturn(c)
    \/ WaitSetEndTime(c)
    \/ WaitSetStatus(c)

TermSteps ==
    \/ TermPs
    \/ TermKill
    \/ TermSetStatus
    \/ TermSetEndTime
    \/ TermReturn

Next ==
    \/ \E command \in LifecycleInputs : ExecCall(command, "Generic")
    \/ ExecSteps
    \/ \E c \in CmdIds : WaitSteps(c)
    \/ \E id \in 0..MaxCommands : TermCall(id)
    \/ TermSteps

\* The lifecycle of the registry: execute_command, the exit-wait tasks and
\* terminate_command, interleaved.
Spec == Init /\ [][Next]_vars

\* The same, with the scheduling the runtime gives: a task that can take a
\* step eventually takes it, a spawned process eventually exits (WaitReturn),
\* and a call that was entered runs on. Nothing obliges the caller to call.
FairSpec ==
    /\ Spec
    /\ WF_vars(ExecSteps)
    /\ \A c \in CmdIds : WF_vars(WaitSteps(c))
    /\ WF_vars(TermSteps)

\* The pieces command lines are made of in the validation specification.
Pieces ==
    << <<"n","m","a","p">>,
       <<"s","u","d","o"," ">>,
       <<" ","-","s","S">>,
       <<"\t","-","s","S">>,
       <<" ","-","s","U">>,
       <<" ","-","s","X">>,
       <<" ","e","x","a","m","p","l","e",".","c","o","m">>,
       <<" ">>,
       <<"T","r","y"," ","T","h","i","s">>,
       <<"l","s">> >>

\* The concatenation of a sequence of strings.
RECURSIVE Flatten(_)
Flatten(ss) == IF ss = <<>> THEN <<>> ELSE ss[1] \o Flatten(Tail(ss))

\* The command line made of the pieces picked by f.
CommandLine(f) == Flatten([i \in DOMAIN f |-> Pieces[f[i]]])

ValidateNext ==
    \/ /\ execPc = "idle"
       /\ execResult = <<>>
       /\ \E k \in 0..MaxPieces : \E f \in [1..k -> DOMAIN Pieces] :
            \E command \in {CommandLine(f)} : ExecCall(command, "Generic")
    \/ ExecSteps
    \/ \E c \in CmdIds : \E is_error \in BOOLEAN : ReaderPublish(c, is_error, line_dev)

\* One execute_command call on any command line made of the pieces, and the
\* stream readers of the process it spawns.
ValidateSpec == Init /\ [][ValidateNext]_vars

\* The command line of the analyzer specification.
cmd_nmap_example == <<"n","m","a","p"," ","e","x","a","m","p","l","e",".","c","o","m">>

\* The lines the analyzer has been sent so far.
RECURSIVE BufferedLines(_)
BufferedLines(c) ==
    IF c = 0 THEN 0 ELSE Len(buffer[c]) + BufferedLines(c - 1)

\* The state in which MaxCommands calls execute_command("nmap example.com",
\* Reconnaissance) have returned Ok: the records are in the registry, the
\* processes run and their stream readers and exit-wait tasks exist. Nothing
\* is wired yet.
AnalyzerInit ==
    /\ commands = [c \in CmdIds |->
                      MonitoredCommand(c, cmd_nmap_example, "Reconnaissance")]
    /\ lock = <<>>
    /\ now = 0
    /\ proc = [c \in CmdIds |-> "running"]
    /\ readers = [c \in CmdIds |-> TRUE]
    /\ waitPc = [c \in CmdIds |-> "waiting"]
    /\ waitRes = [c \in CmdIds |-> "none"]
    /\ outputChan = <<>>
    /\ execPc = "idle"
    /\ arg = cmd_nmap_example
    /\ argType = "Reconnaissance"
    /\ validated = <<>>
    /\ execId = MaxCommands
    /\ execResult = <<"Ok", MaxCommands>>
    /\ execLenBefore = MaxCommands - 1
    /\ termPc = "idle"
    /\ termId = 0
    /\ termCmd = None
    /\ termTarget = 0
    /\ termResult = <<>>
    /\ termWrote = FALSE
    /\ PipelineInit

AnSteps ==
    \/ AnRecv
    \/ AnAnalyze
    \/ AnAddFinding
    \/ AnSendFinding
    \/ AnUpdateSummary
    \/ AnStamp

AnalyzerNext ==
    \/ outputMade = 0 /\ NewAnalyzer
    \/ /\ BufferedLines(MaxCommands) + Len(outputChan) < MaxLines
       /\ \E c \in CmdIds : \E line \in OutputLines : ReaderPublish(c, FALSE, line)
    \/ AnSteps
    \/ Tick

\* An OutputAnalyzer that was given the first receiver get_output_receiver
\* returns, analyzing the output of commands that run, while time passes.
AnalyzerSpec == AnalyzerInit /\ [][AnalyzerNext]_vars

WiringNext ==
    \/ MainGetOutputRx
    \/ fwdRx # None /\ NewAnalyzer
    \/ fwdRx # None /\ anRx # None /\ ExecCall(cmd_ls, "Generic")
    \/ ExecSteps
    \/ /\ Len(fwdGot) + Len(outputChan) < MaxLines
       /\ \E c \in CmdIds : \E is_error \in BOOLEAN :
            ReaderPublish(c, is_error, line_80)
    \/ ForwarderRecv
    \/ AnRecvClosed

\* The wiring of main: the forwarding task gets the receiver of the first
\* get_output_receiver call and the OutputAnalyzer that of the second; then
\* commands are executed and their stream readers publish. The analyzer's
\* receiver is that of a channel other than channel 0, so of the steps of
\* OutputAnalyzer::start only the one that finds the channel closed can be
\* taken.
WiringSpec == Init /\ [][WiringNext]_vars

\* The command lines of the documentation specification.
doc_commands ==
    << <<"n","m","a","p"," ","e","x","a","m","p","l","e",".","c","o","m">>,
       <<"n","m","a","p"," ","l","o","c","a","l","h","o","s","t">>,
       <<"n","m","a","p"," ","1","0",".","0",".","0",".","1"," ","-","o","N"," ","s","c","a","n",".","t","x","t">> >>

\* The state in which MaxCommands calls of execute_command have returned Ok,
\* as in AnalyzerInit, the first one with any of the command lines above.
DocInit ==
    /\ \E k \in DOMAIN doc_commands :
         commands = [c \in CmdIds |->
                       MonitoredCommand(c,
                           IF c = 1 THEN doc_commands[k] ELSE cmd_nmap_example,
                           "Reconnaissance")]
    /\ lock = <<>>
    /\ now = 0
    /\ proc = [c \in CmdIds |-> "running"]
    /\ readers = [c \in CmdIds |-> TRUE]
    /\ waitPc = [c \in CmdIds |-> "waiting"]
    /\ waitRes = [c \in CmdIds |-> "none"]
    /\ outputChan = <<>>
    /\ execPc = "idle"
    /\ arg = commands[MaxCommands].command
    /\ argType = "Reconnaissance"
    /\ validated = <<>>
    /\ execId = MaxCommands
    /\ execResult = <<"Ok", MaxCommands>>
    /\ execLenBefore = MaxCommands - 1
    /\ termPc = "idle"
    /\ termId = 0
    /\ termCmd = None
    /\ termTarget = 0
    /\ termResult = <<>>
    /\ termWrote = FALSE
    /\ PipelineInit

description_ports == <<"P","o","r","t"," ","8","0",","," ","P","o","r","t"," ","4","4","3">>
description_none == <<"n","o"," ","p","o","r","t"," ","a","n","s","w","e","r","e","d">>

\* The findings the clients of the monitor add: open ports with two ports
\* in the description and with none, subdomains, and open ports of a command
\* that is not registered.
FindingInputs ==
    { create_finding(title_open_ports, description_ports, "Info", 1, line_80),
      create_finding(title_subdomains, <<"F","o","u","n","d"," ","1"," ","s","u","b","d","o","m","a","i","n","s">>, "Info", 1, line_dev),
      create_finding(title_open_ports, description_none, "Info", 1, line_dev),
      create_finding(title_open_ports, description_ports, "Info",
                     MaxCommands + 1, line_80) }

\* The actions a caller has got from the follow-up channel.
PublishedActions == {followUpChan[i] : i \in DOMAIN followUpChan}

text_ok == <<"o","k">>
text_error == <<"E","R","R","O","R",":"," ","f","a","i","l","e","d">>

\* The action as the executor reports it: Completed or Failed, with a result.
Reported(action, status) ==
    [action EXCEPT !.status = status,
                   !.result = Some(IF status = "Completed" THEN text_ok
                                   ELSE text_error)]

\* The arguments of update_finding_with_action_result: the reports of the
\* published actions, the same with another description, and the report of
\* an action that was never published.
UpdateInputs ==
    {Reported(a, st) : a \in PublishedActions, st \in {"Completed", "Failed"}}
    \cup {[Reported(a, "Completed") EXCEPT !.description = text_ok] :
            a \in PublishedActions}
    \cup {Reported(PendingAction(0, text_ok, None), "Completed")}

\* The actions of all documented findings.
RECURSIVE AttachedCount(_)
AttachedCount(d) ==
    IF d = 0 THEN 0
    ELSE AttachedCount(d - 1)
         + (IF documented_findings[d] = None THEN 0
            ELSE Len(documented_findings[d][1].follow_up_actions))

DocSteps ==
    \/ DocRecv
    \/ \E outcome \in SaveOutcomes : DocDocument(outcome)
    \/ \E file_ok \in BOOLEAN : DocGenerate(file_ok)
    \/ DocSend

DocNext ==
    \/ DocStart
    \/ /\ Len(findingChan) + docSeen < MaxFindings
       /\ \E finding \in FindingInputs : AddFinding(finding)
    \/ DocSteps

\* Auto-Documentation fed by add_finding calls. Nothing receives from the
\* follow-up channel here, so followUpChan holds every action sent.
DocSpec == DocInit /\ [][DocNext]_vars

\* The findings added in the specification of the calls: those of the first
\* command that name ports or subdomains. start returns when a file cannot be
\* written.
ApiFindingInputs ==
    {finding \in FindingInputs :
        /\ finding.command_id = 1
        /\ finding.description # description_none}

DocApiInit == DocInit /\ commands[1].command = doc_commands[1]

DocApiNext ==
    \/ DocStart
    \/ /\ Len(findingChan) + docSeen < MaxFindings
       /\ \E finding \in ApiFindingInputs : AddFinding(finding)
    \/ DocSteps
    \/ /\ AttachedCount(MaxFindings) < MaxAttached
       /\ \E d \in DocIds : \E action \in PublishedActions :
            \E outcome \in SaveOutcomes : AddFollowUp(d, action, outcome)
    \/ \E action \in UpdateInputs : \E outcome \in SaveOutcomes :
            UpdateCall(action, outcome)

\* Auto-Documentation and its caller: once start has returned, the caller
\* attaches published actions to findings and reports results of actions.
DocApiSpec == DocApiInit /\ [][DocApiNext]_vars

command_scan_example == <<"n","m","a","p"," ","-","s","V"," ","-","p","8","0",",","4","4","3"," ","e","x","a","m","p","l","e",".","c","o","m">>

\* The actions put on the follow-up channel, number n of them: Pending with
\* and without a command, and one that is Completed already.
ActionInputs(n) ==
    { PendingAction(n, <<"s","c","a","n">>, Some(command_scan_example)),
      PendingAction(n, <<"U","p","d","a","t","e"," ","d","o","c","u","m","e","n","t","a","t","i","o","n">>, None),
      [PendingAction(n, <<"s","c","a","n">>, Some(command_scan_example))
          EXCEPT !.status = "Completed"] }

ActSteps ==
    \/ ActRecv
    \/ ActSleep
    \/ ActWake
    \/ ActAdmit

TaskSteps ==
    \/ \E t \in DOMAIN actTasks : TaskBegin(t)
    \/ \E t \in DOMAIN actTasks : \E outcome \in RunOutcomes : TaskRun(t, outcome)
    \/ \E t \in DOMAIN actTasks : TaskSend(t)

ExecutorNext ==
    \/ ActStart
    \/ /\ Len(followUpChan) + actSeen < MaxActions
       /\ \E action \in ActionInputs(Len(followUpChan) + actSeen + 1) :
            Enqueue(action)
    \/ ActSteps
    \/ TaskSteps

\* The Action Executor with actions arriving on the follow-up channel.
ExecutorSpec == Init /\ [][ExecutorNext]_vars

\* ExecutorSpec where start is called and the task that runs it and the
\* tasks it spawns are scheduled again and again (main.rs 106-110,
\* action_executor.rs 65); every command run for an action ends.
ExecutorFairSpec ==
    /\ ExecutorSpec
    /\ WF_vars(ActStart)
    /\ WF_vars(ActSteps)
    /\ WF_vars(TaskSteps)

description_subdomains == <<"F","o","u","n","d"," ","1"," ","s","u","b","d","o","m","a","i","n","s">>

\* Findings of every severity, for either registered command.
ReportFindingInputs ==
    { create_finding(title_subdomains, description_subdomains, severity,
                     command_id, line_dev) :
        severity \in {SeverityGroups[k] : k \in DOMAIN SeverityGroups},
        command_id \in {1, MaxCommands} }

\* Two registered commands with different command lines.
ReportInit ==
    /\ DocInit
    /\ commands[1].command = doc_commands[2]

ReportNext ==
    \/ DocStart
    \/ /\ Len(findingChan) + docSeen < MaxFindings
       /\ \E finding \in ReportFindingInputs : AddFinding(finding)
    \/ DocSteps
    \/ \E outcome \in SaveOutcomes : SummaryReportCall(outcome)
    \/ \E outcome \in SaveOutcomes : FindingsReportCall(outcome)

\* Auto-Documentation fed by add_finding calls with findings of every
\* severity, and the two report functions called at any moment they can be.
ReportSpec == ReportInit /\ [][ReportNext]_vars

\* The k-th line a process writes to a stream in the stream specification:
\* consecutive lines of a stream differ.
StreamLine(k) == IF k % 2 = 1 THEN line_80 ELSE line_dev

\* Every line written so far, over all commands and streams.
TotalEmitted ==
    LET RECURSIVE Count(_)
        Count(sts) ==
            IF sts = {} THEN 0
            ELSE LET st == CHOOSE x \in sts : TRUE
                 IN  Len(emitted[st]) + Count(sts \ {st})
    IN  Count(Streams)

\* Both commands are registered and their processes run, and the stream
\* readers and exit-wait tasks are spawned.
StreamInit ==
    /\ DocInit
    /\ commands[1].command = doc_commands[2]
    /\ fwdRx = None

StreamSteps ==
    \/ /\ TotalEmitted < MaxEmitted
       /\ \E st \in Streams :
            ProcEmit(st[1], st[2], StreamLine(Len(emitted[st]) + 1))
    \/ \E st \in Streams : \E read_ok \in BOOLEAN : ReaderRead(st[1], st[2], read_ok)
    \/ \E st \in Streams : ReaderSend(st[1], st[2])
    \/ \E st \in Streams : ReaderEnd(st[1], st[2])

\* main takes the receiver first; every process exits with success.
StreamNext ==
    \/ MainGetOutputRx
    \/ fwdRx # None /\ \E c \in CmdIds : WaitReturn(c) /\ waitRes'[c] = "success"
    \/ fwdRx # None /\ StreamSteps
    \/ outputRxLive /\ ForwarderRecv
    \/ ForwarderBreak

\* Two commands run; their processes write lines to both streams and exit,
\* the stream readers log and publish the lines, and the forwarding task of
\* main receives them until it ends.
StreamSpec == StreamInit /\ [][StreamNext]_vars

LockNext ==
    \/ outputMade = 0 /\ NewAnalyzer
    \/ /\ BufferedLines(MaxCommands) + Len(outputChan) < MaxEvents
       /\ ReaderPublish(1, FALSE, line_80)
    \/ AnSteps
    \/ \E c \in CmdIds : WaitSteps(c)
    \/ TermCall(1)
    \/ TermSteps

\* Every task that takes the registry lock, interleaved: the analyzer, which
\* calls add_finding and update_command_summary for the open port command 1
\* printed, the exit-wait tasks of the commands and terminate_command(1).
LockSpec == AnalyzerInit /\ [][LockNext]_vars

\* The words generate_follow_up_actions looks for in a title, in the order
\* of its branches (auto_documentation.rs 172-277).
CategoryWords ==
    << <<"O","p","e","n"," ","P","o","r","t">>, <<"S","u","b","d","o","m","a","i","n">>, <<"P","a","t","h">>, <<"D","i","r","e","c","t","o","r","y">>,
       <<"V","e","r","s","i","o","n">>, <<"C","V","E">>, <<"X","S","S">>, <<"I","n","j","e","c","t","i","o","n">> >>

\* Titles with none or one of the words, and with two words of different
\* branches in either order.
CategoryTitles ==
    { <<"N","o","t","e">> }
    \cup {CategoryWords[i] : i \in DOMAIN CategoryWords}
    \cup {CategoryWords[i] \o <<" ">> \o CategoryWords[j] :
            i, j \in {1, 2, 3, 5, 6, 7}}

\* A description every branch finds what it looks for in.
description_all == <<"P","o","r","t"," ","8","0"," ","n","g","i","n","x"," ","v","e","r","s","i","o","n"," ","1",".","2"," ","C","V","E","-","2","0","2","1","-","1","2","3","4">>

CategoryFindingInputs ==
    { create_finding(title, description_all, "Info", 1, line_dev) :
        title \in CategoryTitles }

\* Command 1 has a target.
CategoryInit ==
    /\ DocInit
    /\ commands[1].command = doc_commands[1]

CategoryNext ==
    \/ DocStart
    \/ /\ Len(findingChan) + docSeen < MaxFindings
       /\ \E finding \in CategoryFindingInputs : AddFinding(finding)
    \/ DocSteps

\* Auto-Documentation fed findings whose titles name none, one or two of
\* the categories.
CategorySpec == CategoryInit /\ [][CategoryNext]_vars

\* enum CommandType (command_monitor.rs 36-43)
CommandTypes ==
    {"Reconnaissance", "Scanning", "Exploitation", "Documentation", "Generic",
     "Vulnerability"}

line_nginx == <<"n","g","i","n","x"," ","1",".","2">>
line_admin == <<"/","a","d","m","i","n">>

\* A line for each analyzer: an open port, a subdomain, a version
\* disclosure, an admin path.
TypedLines == {line_80, line_dev, line_nginx, line_admin}

\* AnalyzerInit with command 1 of any type and the other commands Generic.
TypeInit ==
    /\ \E command_type \in CommandTypes :
         commands = [c \in CmdIds |->
                       MonitoredCommand(c, cmd_nmap_example,
                                        IF c = 1 THEN command_type ELSE "Generic")]
    /\ lock = <<>>
    /\ now = 0
    /\ proc = [c \in CmdIds |-> "running"]
    /\ readers = [c \in CmdIds |-> TRUE]
    /\ waitPc = [c \in CmdIds |-> "waiting"]
    /\ waitRes = [c \in CmdIds |-> "none"]
    /\ outputChan = <<>>
    /\ execPc = "idle"
    /\ arg = cmd_nmap_example
    /\ argType = "Generic"
    /\ validated = <<>>
    /\ execId = MaxCommands
    /\ execResult = <<"Ok", MaxCommands>>
    /\ execLenBefore = MaxCommands - 1
    /\ termPc = "idle"
    /\ termId = 0
    /\ termCmd = None
    /\ termTarget = 0
    /\ termResult = <<>>
    /\ termWrote = FALSE
    /\ PipelineInit

TypeNext ==
    \/ outputMade = 0 /\ NewAnalyzer
    \/ /\ BufferedLines(MaxCommands) + Len(outputChan) < MaxLines
       /\ \E line \in TypedLines : ReaderPublish(1, FALSE, line)
    \/ AnSteps
    \/ Tick

\* The OutputAnalyzer analyzing command 1, which is of any type and whose
\* output has lines for every analyzer.
TypeSpec == TypeInit /\ [][TypeNext]_vars

\* The timeouts the caller of wait_for_command_completion passes.
MaxTimeout == 3

WaitForNext ==
    \/ ExecCall(cmd_ls, "Generic")
    \/ ExecSteps
    \/ \E c \in CmdIds : WaitSteps(c)
    \/ \E id \in 0..MaxCommands : \E t \in 0..MaxTimeout : WaitForCall(id, t)
    \/ WaitForPoll
    \/ WaitForWake

\* A caller of wait_for_command_completion beside the commands being
\* executed and ending.
WaitForSpec == Init /\ [][WaitForNext]_vars

SendFailNext ==
    \/ MainGetOutputRx
    \/ fwdRx # None /\ WaitSteps(1)
    \/ /\ fwdRx # None
       /\ \E is_error \in BOOLEAN :
            ProcEmit(1, is_error, StreamLine(Len(emitted[<<1, is_error>>]) + 1))
    \/ \E is_error, read_ok \in BOOLEAN : ReaderRead(1, is_error, read_ok)
    \/ \E is_error \in BOOLEAN : ReaderSend(1, is_error)
    \/ \E is_error \in BOOLEAN : ReaderEnd(1, is_error)
    \/ outputRxLive /\ ForwarderRecv
    \/ ForwarderBreak

\* Command 1 runs and writes to both streams while the forwarding task of
\* main, which holds the receiver of the output channel, may end at any
\* time; the tasks that were spawned run on (a task that can take a step
\* eventually takes it). Nothing obliges the process to exit.
SendFailSpec ==
    /\ StreamInit
    /\ [][SendFailNext]_vars
    /\ WF_vars(WaitSetEndTime(1))
    /\ WF_vars(WaitSetStatus(1))
    /\ \A is_error \in BOOLEAN : WF_vars(ReaderSend(1, is_error))

DownstreamFailNext ==
    \/ outputMade = 0 /\ NewAnalyzer
    \/ /\ BufferedLines(MaxCommands) + Len(outputChan) < MaxLines
       /\ \E c \in CmdIds : \E line \in OutputLines : ReaderPublish(c, FALSE, line)
    \/ AnSteps
    \/ FindingReceiverDropped

\* AnalyzerSpec at one moment of the clock, with the task that runs
\* AutoDocumentation::start ending at any time.
DownstreamFailSpec == AnalyzerInit /\ [][DownstreamFailNext]_vars

\* AnalyzerSpec where the task that runs OutputAnalyzer::start is scheduled
\* again and again and time goes by: it takes an event that waits in the
\* channel, an analysis that has begun is made, and its findings are stored
\* and sent. Nothing obliges a command to print.
AnalyzerFairSpec ==
    /\ AnalyzerSpec
    /\ WF_vars(AnRecv)
    /\ []<>(anPc # "analyze")
    /\ WF_vars(AnAddFinding)
    /\ WF_vars(AnSendFinding)
    /\ WF_vars(AnUpdateSummary)
    /\ WF_vars(AnStamp)
    /\ WF_vars(Tick)

\* The summary the caller of update_command_summary passes.
SummaryInputs == {text_ok}

RegistryNext ==
    \/ \E command \in LifecycleInputs : ExecCall(command, "Generic")
    \/ ExecSteps
    \/ \E c \in CmdIds : WaitSteps(c)
    \/ \E id \in 0..MaxCommands : TermCall(id)
    \/ TermSteps
    \/ \E id \in 0..MaxCommands : \E summary \in SummaryInputs :
            UpdateSummaryCall(id, summary)

\* Spec with a caller of update_command_summary beside it.
RegistrySpec == Init /\ [][RegistryNext]_vars

\* ------------------------------------------------------------- properties

IsTerminal(status) == status # Running

\* The record with id c is in the registry.
Registered(c) == FindIndex(commands, c) # 0

\* The record with id c.
Record(c) == commands[FindIndex(commands, c)]

\* C1 (checked under FairSpec): every command that is in the registry
\* eventually has a status other than Running.
C1_EveryCommandEndsRunning ==
    \A c \in CmdIds :
        Registered(c) ~> (Registered(c) /\ IsTerminal(Record(c).status))

\* C2: whenever the registry lock is free (so in every state a reader can
\* see), each record has end_time set if and only if its status is not
\* Running; the same holds of the record a get_command call returned.
C2_EndTimeIffTerminal ==
    /\ lock = <<>> =>
        \A i \in DOMAIN commands :
            (commands[i].end_time # None) <=> IsTerminal(commands[i].status)
    /\ termCmd # None =>
        ((termCmd[1].end_time # None) <=> IsTerminal(termCmd[1].status))

\* A state any reader can see in which the exit-wait task has finished one
\* command and terminate_command another.
C2_Witness ==
    /\ lock = <<>>
    /\ \E i, j \in DOMAIN commands :
        /\ commands[i].status = Completed /\ commands[i].end_time # None
        /\ commands[j].status = TerminatedByUser /\ commands[j].end_time # None

\* C3: no step changes the status of a record whose status is Completed or
\* Failed.
C3_StatusMonotonic ==
    [][\A i \in DOMAIN commands :
          IsTerminal(commands[i].status)
              => commands'[i].status = commands[i].status]_vars

\* C4: no step writes the end_time of a record whose end_time is set.
C4_EndTimeSetOnce ==
    [][\A i \in DOMAIN commands :
          commands[i].end_time # None
              => commands'[i].end_time = commands[i].end_time]_vars

\* C5: the step in which the exit-wait task of command c stores the status
\* stores Completed exactly when wait() returned a successful exit status and
\* Failed with a reason otherwise, and neither this step nor the one setting
\* end_time changes another record or another field of the record.
C5_ExitWaitStatus ==
    [][\A c \in CmdIds :
          /\ (waitPc[c] = "end_set" /\ waitPc'[c] = "done") =>
                /\ (Record(c)'.status = Completed) <=> (waitRes[c] = "success")
                /\ waitRes[c] # "success" =>
                      /\ Record(c)'.status[1] = "Failed"
                      /\ Record(c)'.status[2] # ""
                /\ commands' =
                      [commands EXCEPT
                          ![FindIndex(commands, c)].status = Record(c)'.status]
          /\ (waitPc[c] = "returned" /\ waitPc'[c] = "end_set") =>
                commands' =
                    [commands EXCEPT
                        ![FindIndex(commands, c)].end_time = Record(c)'.end_time]
      ]_vars

\* Two exit-wait tasks have finished: one whose process succeeded and one
\* whose process failed or could not be waited for.
C5_Witness ==
    \E c, d \in CmdIds :
        /\ c # d
        /\ waitPc[c] = "done" /\ Registered(c) /\ Record(c).status = Completed
        /\ waitPc[d] = "done" /\ Registered(d)
        /\ Record(d).status \in {Failed("Command exited with code"),
                                 Failed("Error waiting for command")}

\* C6: when execute_command has returned an error, the registry holds the
\* records it held when the call was entered (this call is the only one
\* that pushes, so: as many).
C6_ErrorLeavesRegistry ==
    (execPc = "idle" /\ execResult # <<>> /\ execResult[1] = "Err")
        => Len(commands) = execLenBefore

\* The command lines C7 speaks of: empty after trimming, containing an
\* explanatory marker in any case, or starting with nmap / sudo nmap and
\* containing no target pattern.
C7_MustBeRejected(raw) ==
    \/ Trim(raw) = <<>>
    \/ \E lowered \in {ToLower(raw)} :
          \E k \in DOMAIN explanatory_markers :
              Contains(lowered, explanatory_markers[k])
    \/ /\ StartsWith(raw, str_nmap) \/ StartsWith(raw, str_sudo_nmap)
       /\ \A p \in target_patterns : ~Contains(raw, p)

\* C7 (checked under ValidateSpec): once execute_command has been called
\* with such a command line, it has returned an error, the registry is
\* empty, no process was spawned and no output event exists.
C7_RejectedBeforeAnyEffect ==
    ((execPc # "idle" \/ execResult # <<>>) /\ C7_MustBeRejected(arg)) =>
        /\ execPc = "idle"
        /\ execResult[1] = "Err"
        /\ commands = <<>>
        /\ \A c \in CmdIds : proc[c] = "none" /\ ~readers[c]
        /\ outputChan = <<>>

\* "nmap -sS" (no target) and "Try This" (a marker in another case) have
\* been rejected.
C7_Witness ==
    /\ execPc = "idle"
    /\ execResult # <<>>
    /\ execResult[1] = "Err"
    /\ arg \in { <<"n","m","a","p"," ","-","s","S">>,
                 <<"l","s"," ","T","r","y"," ","T","h","i","s">> }

raw_socket_flags ==
    { <<"-","s","S">>, <<"-","s","U">>, <<"-","s","N">>,
      <<"-","s","F">>, <<"-","s","X">> }

\* C8 (checked under ValidateSpec): when the command line starts with nmap
\* (so not with sudo), the command of every record registered for it
\* contains none of -sS, -sU, -sN, -sF, -sX.
C8_NoRawSocketFlags ==
    StartsWith(Trim(arg), str_nmap) =>
        \A i \in DOMAIN commands :
            \A flag \in raw_socket_flags : ~Contains(commands[i].command, flag)

\* C9: a step in which terminate_command returns an error leaves the
\* registry as it is, and the call has written nothing to the registry.
C9_TerminateErrorFrame ==
    [][(/\ termPc # "idle" \/ termResult # termResult' \/ termId # termId'
        /\ termPc' = "idle"
        /\ termResult' # <<>>
        /\ termResult'[1] = "Err")
          => (commands' = commands /\ ~termWrote')]_vars

\* terminate_command has returned the not-found error for an id that is not
\* in a registry that holds a Running record.
C9_Witness ==
    /\ termPc = "idle"
    /\ termResult = NotFoundError
    /\ ~Registered(termId)
    /\ \E i \in DOMAIN commands : commands[i].status = Running

\* C10: once terminate_command(id) has returned Ok, the status of id is
\* Failed("Terminated by user") and its end_time is set.
C10_OkMeansTerminatedByUser ==
    (termPc = "idle" /\ termResult = <<"Ok">>) =>
        /\ Registered(termId)
        /\ Record(termId).status = TerminatedByUser
        /\ Record(termId).end_time # None

\* The analyzer receives an event of command c in this step.
AnReceives(c) ==
    /\ anPc = "recv"
    /\ outputChan # <<>>
    /\ outputChan' = Tail(outputChan)
    /\ buffer'[c] # buffer[c]

\* An analysis pass of command c begins in this step.
PassBegins(c) == AnReceives(c) /\ anPc' = "analyze" /\ anEvent' = c

\* C11: when a pass of a command begins, more than 5 seconds have gone by
\* since its previous pass began; the first event of a command begins a pass
\* at once; and whether an event of a command begins a pass depends on the
\* time of that command's last pass only, whatever was analyzed for the
\* other commands.
C11_ThrottlePerCommand ==
    [][\A c \in CmdIds :
          /\ (PassBegins(c) /\ passAt[c] # None)
                => instant - passAt[c][1] > ThrottleSecs
          /\ (AnReceives(c) /\ buffer[c] = <<>>) => PassBegins(c)
          /\ AnReceives(c) =>
                (PassBegins(c) <=>
                    \/ last_analyzed[c] = None
                    \/ instant - last_analyzed[c][1] > ThrottleSecs)
      ]_vars

\* The second pass of a command has begun, more than 5 seconds after its
\* first pass ended.
C11_Witness ==
    \E c \in CmdIds :
        /\ anPc = "analyze" /\ anEvent = c
        /\ Len(buffer[c]) = 2
        /\ last_analyzed[c] # None
        /\ instant - last_analyzed[c][1] > ThrottleSecs

\* The findings with the given title sent for command c.
SentFindings(c, title) ==
    SelectSeq(findingChan, LAMBDA f : f.command_id = c /\ f.title = title)

\* C12: when the analyzer has taken the events "80/tcp open http" and
\* "443/tcp open https" of a command and waits for the next event, it has
\* sent exactly one "Open Ports Detected" finding for the command, whose
\* description lists port 80 and port 443.
C12_OnePortFindingListsBoth ==
    \A c \in CmdIds :
        (anPc = "recv" /\ buffer[c] = <<line_80, line_443>>) =>
            /\ Len(SentFindings(c, title_open_ports)) = 1
            /\ Contains(SentFindings(c, title_open_ports)[1].description,
                        <<"P","o","r","t"," ","8","0">>)
            /\ Contains(SentFindings(c, title_open_ports)[1].description,
                        <<"P","o","r","t"," ","4","4","3">>)

\* C13: every finding sent on the finding channel, and every finding that is
\* created and not sent yet, has the id of a command of the registry.
C13_FindingOwnerRegistered ==
    /\ \A i \in DOMAIN findingChan : Registered(findingChan[i].command_id)
    /\ \A i \in DOMAIN anPending : Registered(anPending[i].finding.command_id)

\* Findings of two commands have been sent.
C13_Witness ==
    \E i, j \in DOMAIN findingChan :
        /\ findingChan[i].command_id # findingChan[j].command_id
        /\ Registered(findingChan[i].command_id)
        /\ Registered(findingChan[j].command_id)

\* C14: once both receivers are handed out, the events go to the receiver
\* of the second call: the forwarding task, which holds the receiver of the
\* first call, receives no further event, and the analyzer's receiver is
\* not closed.
C14_SecondReceiverGetsEvents ==
    [][(fwdRx # None /\ anRx # None)
          => (fwdGot' = fwdGot /\ anPc' # "stopped")]_vars

\* generate_follow_up_actions has just returned: docActions holds all the
\* actions it made of the finding start documented last.
JustGenerated ==
    /\ docPc = "send"
    /\ docActions # <<>>
    /\ docActions[1].id = nextActionId - Len(docActions)

command_scan_last == <<"n","m","a","p"," ","-","s","V"," ","-","p","8","0",",","4","4","3"," ","s","c","a","n",".","t","x","t">>

\* The actions among them that carry a command.
CommandActions == {i \in DOMAIN docActions : docActions[i].command # None}

\* C15: for a documented finding whose title contains "Open Port", the
\* description "Port 80, Port 443" and the discovery command
\* "nmap example.com" give a Pending action with the command
\* "nmap -sV -p80,443 example.com"; with the discovery command
\* "nmap 10.0.0.1 -oN scan.txt" the target is the last term that looks like a
\* domain or an address, scan.txt; the ports stand in the order of the
\* description, separated by commas; and no action with a command is derived
\* when the description names no port or the command has no target.
C15_PortScanAction ==
    (JustGenerated /\ Contains(documented_findings[docCur][1].title, <<"O","p","e","n"," ","P","o","r","t">>))
    => LET d == documented_findings[docCur][1]
       IN  /\ Cardinality(CommandActions) <= 1
           /\ (d.description = description_ports
                  /\ d.discovery_command = doc_commands[1])
              => \E i \in CommandActions :
                    /\ docActions[i].status = "Pending"
                    /\ docActions[i].command = Some(command_scan_example)
           /\ (d.description = description_ports
                  /\ d.discovery_command = doc_commands[3])
              => \E i \in CommandActions :
                    /\ docActions[i].status = "Pending"
                    /\ docActions[i].command = Some(command_scan_last)
           /\ (d.description = description_none
                  \/ d.discovery_command = doc_commands[2])
              => CommandActions = {}
           /\ \A i \in CommandActions :
                 docActions[i].command =
                    Some(<<"n","m","a","p"," ","-","s","V"," ","-","p">>
                         \o Join(PortNumbers(d.description), <<",">>) \o <<" ">>
                         \o extract_target_from_command(d.discovery_command)[1])

\* The scan of ports 80 and 443 of example.com has been derived.
C15_Witness ==
    /\ JustGenerated
    /\ documented_findings[docCur][1].description = description_ports
    /\ documented_findings[docCur][1].discovery_command = doc_commands[1]
    /\ \E i \in CommandActions :
          docActions[i].command = Some(command_scan_example)

\* An action without its id.
Unlabelled(action) ==
    [ description |-> action.description,
      command |-> action.command,
      status |-> action.status,
      result |-> action.result ]

UnlabelledAll(actions) == [i \in DOMAIN actions |-> Unlabelled(actions[i])]

\* What is to be sent for a documented finding: the Pending action without a
\* command that updates its documentation, then the actions of its category.
ActionsDue(finding) ==
    << [ description |-> <<"U","p","d","a","t","e"," ","d","o","c","u","m","e","n","t","a","t","i","o","n"," ","f","o","r"," ","f","i","n","d","i","n","g"," ">> \o finding.id,
         command |-> None,
         status |-> "Pending",
         result |-> None ] >>
    \o UnlabelledAll(CategoryActions(0, finding))

\* ActionsDue of the documents numbered 1 to d, in that order.
RECURSIVE ActionsDueUpTo(_)
ActionsDueUpTo(d) ==
    IF d = 0 THEN <<>>
    ELSE ActionsDueUpTo(d - 1)
         \o (IF documented_findings[d] = None THEN <<>>
             ELSE ActionsDue(documented_findings[d][1]))

\* C16: whenever start is between two findings or has returned, the actions
\* sent on the follow-up channel are, for each documented finding in the
\* order of receipt, exactly one Pending action without a command that
\* updates the documentation, followed by the actions of the finding's
\* category.
C16_ActionsOfEveryFinding ==
    (docPc \in {"idle", "recv", "failed"})
    => UnlabelledAll(followUpChan) = ActionsDueUpTo(MaxFindings)

\* The ids of the actions start has derived and sent.
PublishedIds == {followUpChan[i].id : i \in DOMAIN followUpChan}

\* Document d holds an action with the id, status and result of `action`.
HoldsMerged(findings, d, action) ==
    /\ findings[d] # None
    /\ \E i \in DOMAIN findings[d][1].follow_up_actions :
          /\ findings[d][1].follow_up_actions[i].id = action.id
          /\ findings[d][1].follow_up_actions[i].status = action.status
          /\ findings[d][1].follow_up_actions[i].result = action.result

\* C17: a call of update_finding_with_action_result with an action that has
\* the id of an action start derived and sent finds a documented finding
\* that owns it: afterwards that finding's follow_up_actions hold the action
\* with the status and the result of the argument, and the call does not
\* return the error of a missing owner.
C17_UpdateFindsPublishedAction ==
    [][\A action \in UpdateInputs : \A outcome \in SaveOutcomes :
          (action.id \in PublishedIds /\ UpdateCall(action, outcome))
          => /\ \E d \in DocIds : HoldsMerged(documented_findings', d, action)
             /\ updResult' # <<"Err", "no match">>]_vars

\* The finding is `before` but for the status and the result of its i-th
\* action, which are those of `action`.
OnlyActionMerged(before, after, i, action) ==
    /\ after.id = before.id
    /\ after.title = before.title
    /\ after.description = before.description
    /\ after.severity = before.severity
    /\ after.discovery_command = before.discovery_command
    /\ after.raw_evidence = before.raw_evidence
    /\ after.status = before.status
    /\ Len(after.follow_up_actions) = Len(before.follow_up_actions)
    /\ \A j \in DOMAIN before.follow_up_actions :
          IF j = i
          THEN /\ after.follow_up_actions[j].id = before.follow_up_actions[j].id
               /\ after.follow_up_actions[j].description =
                     before.follow_up_actions[j].description
               /\ after.follow_up_actions[j].command =
                     before.follow_up_actions[j].command
               /\ after.follow_up_actions[j].status = action.status
               /\ after.follow_up_actions[j].result = action.result
          ELSE after.follow_up_actions[j] = before.follow_up_actions[j]

\* C18: update_finding_with_action_result changes only the status and the
\* result of the one action with the id of its argument, the first in the
\* first finding that has one: the other fields of that finding, its other
\* actions and the other findings stay as they are; without such an action
\* no finding and no file changes; and the same call made again changes no
\* finding.
C18_UpdateChangesOneAction ==
    [][\A action \in UpdateInputs : \A outcome \in SaveOutcomes :
          UpdateCall(action, outcome)
          => LET d == FirstOwner(documented_findings, docOrder, action.id)
             IN  /\ IF d = 0
                    THEN /\ documented_findings' = documented_findings
                         /\ docFiles' = docFiles
                    ELSE /\ \A e \in DocIds \ {d} :
                              /\ documented_findings'[e] = documented_findings[e]
                              /\ docFiles'[e] = docFiles[e]
                         /\ documented_findings'[d] # None
                         /\ OnlyActionMerged(
                              documented_findings[d][1],
                              documented_findings'[d][1],
                              ActionIndex(documented_findings[d][1].follow_up_actions,
                                          action.id),
                              action)
                 /\ MergedFindings(documented_findings', docOrder', action)
                       = documented_findings']_vars

\* A result has been merged into one of two actions of a finding, the other
\* action being as it was attached, and there is another finding.
C18_Witness ==
    /\ updResult = <<"Ok">>
    /\ \E d \in DocIds :
          /\ documented_findings[d] # None
          /\ \E e \in DocIds \ {d} : documented_findings[e] # None
          /\ Len(documented_findings[d][1].follow_up_actions) = 2
          /\ documented_findings[d][1].follow_up_actions[1].status = "Pending"
          /\ documented_findings[d][1].follow_up_actions[2].status = "Failed"

\* C19: start does not return because a finding could not be documented: as
\* long as a finding waits on the finding channel, start, once called, is in
\* its loop and will receive it, whether or not the command of an earlier
\* finding was found and its file could be written.
C19_LoopSurvivesFailure ==
    (findingChan # <<>>) => (docPc # "failed")

\* The tasks start has spawned that have not sent their result yet.
InFlight == {t \in DOMAIN actTasks : actTasks[t].pc # "sent"}

\* C20: at no time have more than max_concurrent spawned tasks their result
\* still to send, however many actions are enqueued.
C20_AtMostMaxConcurrent == Cardinality(InFlight) <= max_concurrent

\* max_concurrent actions are InProgress while a further action, received
\* with MaxActions of them enqueued, waits to be admitted.
C20_Witness ==
    /\ actPc = "sleep"
    /\ Len(followUpChan) + actSeen = MaxActions
    /\ Cardinality({t \in InFlight : actTasks[t].action.status = "InProgress"})
          = max_concurrent

\* start holds action number n, received Pending or InProgress, and has not
\* admitted it yet.
AwaitsAdmission(n) == actCur # None /\ actCur[1].id = n

\* A copy of action number n, Completed or Failed, is on the result channel.
ResultReported(n) ==
    \E j \in DOMAIN resultChan :
        /\ resultChan[j].id = n
        /\ resultChan[j].status \in {"Completed", "Failed"}

\* C21: every action start has received Pending or InProgress is admitted
\* in the end, and a copy of it that is Completed or Failed is sent on the
\* result channel, however many actions are enqueued.
C21_EveryActionReported ==
    \A n \in 1..MaxActions : AwaitsAdmission(n) ~> ResultReported(n)

\* start receives, in this step, an action that is Completed or Failed.
ReceivesFinished ==
    /\ actPc = "recv"
    /\ followUpChan # <<>>
    /\ followUpChan' = Tail(followUpChan)
    /\ Head(followUpChan).status \in {"Completed", "Failed"}

\* C22: the step in which start receives an action that is Completed or
\* Failed spawns no task, sends nothing on the result channel, leaves
\* current_executing as it is and leaves start at recv with no action in
\* hand; and whenever a task is spawned, its action was received Pending or
\* InProgress, so that no task and no result ever exists for a skipped one.
C22_FinishedActionSkipped ==
    [][/\ ReceivesFinished
          => /\ actTasks' = actTasks
             /\ resultChan' = resultChan
             /\ current_executing' = current_executing
             /\ actPc' = "recv"
             /\ actCur' = None
       /\ Len(actTasks') > Len(actTasks)
          => /\ actCur # None
             /\ actCur[1].status \in {"Pending", "InProgress"}
             /\ actTasks'[Len(actTasks')].action = actCur[1]
       /\ Len(resultChan') > Len(resultChan)
          => \E t \in DOMAIN actTasks :
                /\ actTasks[t].pc = "done"
                /\ resultChan'[Len(resultChan')].id = actTasks[t].action.id
      ]_vars

\* The first action start received was Completed already and was skipped;
\* a second one waits on the channel.
C22_Witness ==
    /\ actSeen = 1
    /\ actPc = "recv"
    /\ actCur = None
    /\ actTasks = <<>>
    /\ resultChan = <<>>
    /\ followUpChan # <<>>

\* C23: a task whose action has no command runs no process, and what it
\* sends on the result channel is Completed and has no result.
C23_NoCommandCompleted ==
    /\ \A t \in DOMAIN actTasks :
          actTasks[t].action.command = None
          => /\ actTasks[t].process = "none"
             /\ actTasks[t].pc \in {"done", "sent"}
                => /\ actTasks[t].action.status = "Completed"
                   /\ actTasks[t].action.result = None
    /\ \A j \in DOMAIN resultChan :
          resultChan[j].command = None
          => /\ resultChan[j].status = "Completed"
             /\ resultChan[j].result = None

\* An action without a command has been reported.
C23_Witness ==
    \E j \in DOMAIN resultChan : resultChan[j].command = None

\* The documents stored in documented_findings.
Documented == {d \in DocIds : documented_findings[d] # None}

\* The sections come in the order Critical, High, Medium, Low, Info.
SectionsInOrder(sections) ==
    \A i, j \in DOMAIN sections :
        i < j => severity_order(sections[i].severity)
                   < severity_order(sections[j].severity)

\* Where the summary report shows document d: <<section, entry>> pairs.
SummaryPlaces(report, d) ==
    {p \in {<<i, j>> : i \in DOMAIN report.sections, j \in 1..MaxFindings + 1} :
        /\ p[2] \in DOMAIN report.sections[p[1]].entries
        /\ report.sections[p[1]].entries[p[2]]
             = SummaryEntry(documented_findings[d][1])}

SummaryReportRight(report) ==
    /\ \A k \in DOMAIN SeverityGroups :
         report.counts[k] =
           Cardinality({d \in Documented :
                          documented_findings[d][1].severity = SeverityGroups[k]})
    /\ report.total = Cardinality(Documented)
    /\ SectionsInOrder(report.sections)
    /\ \A d \in Documented :
         /\ Cardinality(SummaryPlaces(report, d)) = 1
         /\ \A p \in SummaryPlaces(report, d) :
              report.sections[p[1]].severity = documented_findings[d][1].severity
    /\ \A i \in DOMAIN report.sections :
         Len(report.sections[i].entries)
           = report.counts[severity_order(report.sections[i].severity) + 1]

\* The findings of the registry: <<command, finding>> index pairs.
RegistryFindings ==
    {p \in (DOMAIN commands) \X (1..MaxFindings + 1) :
        p[2] \in DOMAIN commands[p[1]].findings}

\* What the findings report is to show of the finding at p, and where.
RegistryEntry(p) ==
    [ severity |-> commands[p[1]].findings[p[2]].severity,
      title |-> commands[p[1]].findings[p[2]].title,
      description |-> commands[p[1]].findings[p[2]].description,
      command |-> commands[p[1]].command,
      raw_output |-> commands[p[1]].findings[p[2]].raw_output ]

\* The entries of the findings report, each with its section's severity.
ReportEntries(sections) ==
    {p \in {<<i, j>> : i \in DOMAIN sections, j \in 1..MaxCommands * (MaxFindings + 1)} :
        p[2] \in DOMAIN sections[p[1]].entries}

ReportEntry(sections, p) ==
    [ severity |-> sections[p[1]].severity,
      title |-> sections[p[1]].entries[p[2]].title,
      description |-> sections[p[1]].entries[p[2]].description,
      command |-> sections[p[1]].entries[p[2]].command,
      raw_output |-> sections[p[1]].entries[p[2]].raw_output ]

FindingsReportRight(sections) ==
    /\ SectionsInOrder(sections)
    /\ \A i \in DOMAIN sections : sections[i].count = Len(sections[i].entries)
    /\ Cardinality(ReportEntries(sections)) = Cardinality(RegistryFindings)
    /\ \A p \in RegistryFindings :
         Cardinality({q \in ReportEntries(sections) :
                        ReportEntry(sections, q) = RegistryEntry(p)})
           = Cardinality({q \in RegistryFindings :
                            RegistryEntry(q) = RegistryEntry(p)})

\* C24: a summary report that is written counts every documented finding in
\* exactly one of the five severity groups, shows the groups in the order
\* Critical, High, Medium, Low, Info, and its total is the sum of the five
\* counts and the number of documented findings; a findings report that is
\* written lists every finding of every command exactly once, under its
\* severity, in the same order of groups.
C24_ReportsGroupBySeverity ==
    [][ /\ SummaryReportCall("saved")
          => /\ SummaryReportRight(summaryReport'[1][2])
             /\ summaryReport'[1][2].total
                  = summaryReport'[1][2].counts[1] + summaryReport'[1][2].counts[2]
                    + summaryReport'[1][2].counts[3] + summaryReport'[1][2].counts[4]
                    + summaryReport'[1][2].counts[5]
        /\ FindingsReportCall("saved")
          => FindingsReportRight(findingsReport'[1][2]) ]_vars

\* Both reports were written with findings of two severities that arrived
\* with the less severe one first.
C24_Witness ==
    /\ summaryReport # None
    /\ summaryReport[1][1] = "written"
    /\ Len(summaryReport[1][2].sections) = 2
    /\ summaryReport[1][2].total = 2
    /\ findingsReport # None
    /\ findingsReport[1][1] = "written"
    /\ Len(findingsReport[1][2]) = 2
    /\ Len(commands[1].findings) = 1
    /\ Len(commands[MaxCommands].findings) = 1
    /\ commands[1].findings[1].severity = "Low"
    /\ commands[MaxCommands].findings[1].severity = "Critical"
    /\ findingsReport[1][2][1].entries[1].command = commands[MaxCommands].command

\* Every event sent on channel 0, in the order of the sends: those the
\* forwarding task has received and those still in the channel.
Published == fwdGot \o outputChan

RECURSIVE IsSubsequence(_, _)
\* a can be had from b by leaving elements out.
IsSubsequence(a, b) ==
    IF a = <<>> THEN TRUE
    ELSE IF b = <<>> THEN FALSE
    ELSE IF Head(a) = Head(b) THEN IsSubsequence(Tail(a), Tail(b))
    ELSE IsSubsequence(a, Tail(b))

\* The lines of the events published for a stream, in channel order.
PublishedLines(st) ==
    LET OfStream(e) == e.command_id = st[1] /\ e.is_error = st[2]
        events == SelectSeq(Published, OfStream)
    IN  [i \in DOMAIN events |-> events[i].line]

\* The lines of a stream in the output file of its command, in file order.
FileLines(st) ==
    LET OfStream(l) == l[1] = (IF st[2] THEN "[STDERR]" ELSE "[STDOUT]")
        lines == SelectSeq(outputFile[st[1]], OfStream)
    IN  [i \in DOMAIN lines |-> lines[i][2]]

\* The lines of a stream that were read from the pipe.
ReadLines(st) == SubSeq(emitted[st], 1, Len(emitted[st]) - Len(pipe[st]))

\* C25: for every command and stream, the lines of the output file with the
\* stream's tag and the lines of the published events with the command's id
\* and the stream's is_error are, in that order, lines the process wrote to
\* that stream and the reader has read, and every published event was
\* written to the file first.
C25_StreamOrderKept ==
    \A st \in Streams :
        /\ IsSubsequence(FileLines(st), ReadLines(st))
        /\ IsSubsequence(PublishedLines(st), FileLines(st))

\* Command 1 wrote two lines to stdout and one to stderr; the file has the
\* stderr line between the stdout lines and the channel got it first.
C25_Witness ==
    /\ outputFile[1] = << <<"[STDOUT]", line_80>>, <<"[STDERR]", line_80>>,
                          <<"[STDOUT]", line_dev>> >>
    /\ Published = << [command_id |-> 1, line |-> line_80, is_error |-> TRUE],
                      [command_id |-> 1, line |-> line_80, is_error |-> FALSE],
                      [command_id |-> 1, line |-> line_dev, is_error |-> FALSE] >>

\* C26: whoever holds the registry lock is inside its critical section, at
\* a step that needs nothing to happen first, and that step releases the
\* lock: an exit-wait task holds it only between setting end_time and
\* setting the status, after process.wait() has returned; terminate_command
\* holds it only between setting the status and setting end_time, after ps
\* and kill have returned; the analyzer, whose add_finding and
\* update_command_summary are critical sections of one step, never holds it
\* at its channel receive or at the send of add_finding.
C26_LockHeldOnlyInCriticalSection ==
    /\ lock # <<>> =>
         \/ /\ lock = <<"terminate">>
            /\ termPc = "status_set"
            /\ ENABLED TermSetEndTime
         \/ \E c \in CmdIds :
               /\ lock = <<"exit_wait", c>>
               /\ waitPc[c] = "end_set"
               /\ ENABLED WaitSetStatus(c)
    /\ \A c \in CmdIds : waitPc[c] = "waiting" => lock # <<"exit_wait", c>>
    /\ termPc \in {"ps", "kill"} => lock # <<"terminate">>

\* An exit-wait task holds the lock while the analyzer is suspended at the
\* send of add_finding and terminate_command is about to take the lock.
C26_Witness ==
    /\ lock = <<"exit_wait", MaxCommands>>
    /\ anPc = "send"
    /\ Len(commands[1].findings) = 1
    /\ termPc = "update"

\* The finding Auto-Documentation is about to document names a command that
\* is not in the registry.
DocumentsUnregistered ==
    /\ docPc = "document"
    /\ \A i \in DOMAIN commands : commands[i].id # docFinding[1].command_id

\* C27: when the finding received names a command that is not registered,
\* the step that documents it ends start with an error and stores no
\* documented finding, writes no file and publishes no follow-up action.
C27_UnregisteredCommandFails ==
    [][ (DocumentsUnregistered /\ docPc' # docPc)
          => /\ docPc' = "failed"
             /\ documented_findings' = documented_findings
             /\ docFiles' = docFiles
             /\ followUpChan' = followUpChan
             /\ nextDocId' = nextDocId ]_vars

\* The first finding was documented and its actions were published; the
\* second named an unregistered command and start ended before a document
\* number was taken for it.
C27_Witness ==
    /\ docPc = "failed"
    /\ docSeen = 2
    /\ nextDocId = 2
    /\ documented_findings[1] # None
    /\ documented_findings[2] = None
    /\ docFiles[2] = None
    /\ followUpChan # <<>>

\* The branch of generate_follow_up_actions the k-th category word belongs
\* to: 1 Open Port, 2 Subdomain, 3 Path or Directory, 4 Version, 5 CVE,
\* 6 XSS or Injection.
BranchOfWord(k) ==
    CASE k = 1 -> 1
      [] k = 2 -> 2
      [] k \in {3, 4} -> 3
      [] k = 5 -> 4
      [] k = 6 -> 5
      [] k \in {7, 8} -> 6

\* The actions of one branch.
BranchActions(b, id, finding) ==
    CASE b = 1 -> OpenPortActions(id, finding)
      [] b = 2 -> SubdomainActions(id, finding)
      [] b = 3 -> PathActions(id, finding)
      [] b = 4 -> VersionActions(id, finding)
      [] b = 5 -> CveActions(id, finding)
      [] b = 6 -> InjectionActions(id, finding)

\* The branches whose word is in the title.
MatchingBranches(title) ==
    {BranchOfWord(k) : k \in {j \in DOMAIN CategoryWords :
                                Contains(title, CategoryWords[j])}}

\* The smallest of a non-empty set of numbers.
Least(S) == CHOOSE n \in S : \A m \in S : n <= m

\* C28: the actions generated for a finding are the documentation update
\* and then the actions of one branch at most, the first in the order Open
\* Port, Subdomain, Path/Directory, Version, CVE, XSS/Injection whose word
\* is in the title; for a title with both "Version" and "CVE" that is the
\* searchsploit action and no CVE lookup.
C28_FirstMatchingBranchOnly ==
    [][ (docPc = "generate" /\ docPc' = "send") =>
        LET finding == documented_findings[docCur][1]
            branches == MatchingBranches(finding.title)
            rest == Tail(docActions')
        IN  /\ docActions'[1] = UpdateDocumentationAction(nextActionId, finding)
            /\ IF branches = {} THEN rest = <<>>
               ELSE rest = BranchActions(Least(branches), nextActionId + 1, finding)
            /\ (Contains(finding.title, CategoryWords[5])
                  /\ Contains(finding.title, CategoryWords[6])
                  /\ branches = {4, 5})
                 => /\ Len(rest) = 1
                    /\ rest[1].command =
                         Some(<<"s","e","a","r","c","h","s","p","l","o","i","t"," ","n","g","i","n","x"," ","1",".","2">>) ]_vars

\* The actions were generated for a finding titled "CVE Version": the
\* update and the searchsploit action.
C28_Witness ==
    /\ docPc = "send"
    /\ docActions[1] = UpdateDocumentationAction(nextActionId - 2,
                                                 documented_findings[docCur][1])
    /\ documented_findings[docCur][1].title = <<"C","V","E"," ","V","e","r","s","i","o","n">>
    /\ Len(docActions) = 2
    /\ docActions[2].command = Some(<<"s","e","a","r","c","h","s","p","l","o","i","t"," ","n","g","i","n","x"," ","1",".","2">>)

\* C29: a pass over the buffer of a command adds the findings of the
\* port-scan and the subdomain analyzer when the command is a
\* Reconnaissance command, those of the vulnerability analyzer when it is a
\* Scanning or a Vulnerability command, and those of the port-scan, the
\* vulnerability, the subdomain and the path analyzer, in that order, when
\* it is of another type; for a command id that is not registered it adds
\* none.
C29_AnalyzersByCommandType ==
    [][ (anPc = "analyze" /\ anPc' # "analyze") =>
        LET command_type == Record(anEvent).command_type
            context == Join(buffer[anEvent], <<"\n">>)
        IN  /\ command_type = "Reconnaissance" =>
                 anPending' = analyze_port_scan(context, anEvent)
                              \o analyze_subdomains(context, anEvent)
            /\ command_type \in {"Scanning", "Vulnerability"} =>
                 anPending' = analyze_vulnerabilities(context, anEvent)
            /\ command_type \in {"Exploitation", "Documentation", "Generic"} =>
                 anPending' = analyze_port_scan(context, anEvent)
                              \o analyze_vulnerabilities(context, anEvent)
                              \o analyze_subdomains(context, anEvent)
                              \o analyze_paths(context, anEvent)
            /\ analyze_command_output(MaxCommands + 1) = <<>> ]_vars

\* A Scanning command printed an open port and then a version: its only
\* finding is the version disclosure.
C29_Witness ==
    /\ commands[1].command_type = "Scanning"
    /\ buffer[1] = <<line_80, line_nginx>>
    /\ Len(commands[1].findings) = 1
    /\ commands[1].findings[1].title = <<"n","g","i","n","x"," ","V","e","r","s","i","o","n"," ","D","i","s","c","l","o","s","u","r","e">>
    /\ anPc = "recv"

\* C30: a command's status is terminal (Completed or Failed) only when both
\* of its stream-reading tasks have been spawned; output of the command may
\* still be published after that.
C30_TerminalAfterReadersSpawned ==
    \A i \in DOMAIN commands :
        IsTerminal(commands[i].status) => readers[commands[i].id]

\* The "Open Ports Detected" findings stored for command c, in order.
PortFindings(c) ==
    SelectSeq(Record(c).findings, LAMBDA f : f.title = title_open_ports)

\* The "Open Ports Detected" findings among the findings of a pass.
PortFindingsOf(pending) ==
    SelectSeq(pending, LAMBDA p : p.finding.title = title_open_ports)

\* Sequence s is the beginning of sequence t.
BeginsWith(t, s) == Len(s) <= Len(t) /\ SubSeq(t, 1, Len(s)) = s

\* The analysis of command c is made in this step.
PassRuns(c) == anPc = "analyze" /\ anPc' # "analyze" /\ anEvent = c

\* The analyzer stores a port finding of command c in this step.
PortFindingStored(c) ==
    /\ anPc = "add"
    /\ anPc' = "send"
    /\ anPending[1].finding.command_id = c
    /\ anPending[1].finding.title = title_open_ports

\* C31: the buffer of a command only grows, by the received line at its end;
\* every pass on a Reconnaissance command whose buffer has an open-port line
\* creates exactly one "Open Ports Detected" finding, made from the whole
\* buffer whatever earlier passes found, and that finding is stored as a
\* further port finding of the command; nothing else changes the number of
\* the command's port findings.
C31_CumulativeBufferRescanned ==
    [][\A c \in CmdIds :
          /\ BeginsWith(buffer'[c], buffer[c])
          /\ AnReceives(c) =>
                buffer'[c] = Append(buffer[c], Head(outputChan).line)
          /\ (PassRuns(c) /\ Record(c).command_type = "Reconnaissance"
                /\ OpenPorts(buffer[c]) # <<>>) =>
                /\ PortFindingsOf(anPending') =
                      analyze_port_scan(Join(buffer[c], <<"\n">>), c)
                /\ Len(PortFindingsOf(anPending')) = 1
                /\ anPending'[1].finding.raw_output = Join(buffer[c], <<"\n">>)
          /\ PortFindingStored(c) =>
                PortFindings(c)' = Append(PortFindings(c), anPending[1].finding)
          /\ ~PortFindingStored(c) => PortFindings(c)' = PortFindings(c)
      ]_vars

\* Two passes of command 1 have run, the first on "80/tcp open http" alone
\* and the second on that line and "443/tcp open https": two port findings
\* are stored, and the second lists port 80 again.
C31_Witness ==
    /\ buffer[1] = <<line_80, line_443>>
    /\ Len(PortFindings(1)) = 2
    /\ PortFindings(1)[1].raw_output = line_80
    /\ PortFindings(1)[2].raw_output = Join(<<line_80, line_443>>, <<"\n">>)
    /\ Contains(PortFindings(1)[2].description, <<"P","o","r","t"," ","8","0">>)
    /\ Contains(PortFindings(1)[2].description, <<"P","o","r","t"," ","4","4","3">>)

\* The larger of two numbers.
Max(a, b) == IF a >= b THEN a ELSE b

\* wait_for_command_completion returns in this step.
WaitForReturns == wfcPc = "poll" /\ wfcPc' = "idle"

\* C32: wait_for_command_completion(id, t) makes at most max(1, t) polls and
\* has returned when it has made that many; it returns true only from a poll
\* that finds the command with a status other than Running, false from the
\* poll that finds no command with the id, false when the command is Running
\* at poll number max(1, t), and goes on to a further poll otherwise; no step
\* of it changes the registry.
C32_WaitForCompletionPolls ==
    [][/\ polls' <= Max(1, max_attempts')
       /\ (polls' = Max(1, max_attempts') /\ max_attempts' = max_attempts)
             => wfcPc' = "idle"
       /\ (wfcPc' # wfcPc \/ polls' # polls) => commands' = commands
       /\ (wfcPc = "poll" /\ wfcPc' # "poll") =>
            /\ polls' = polls + 1
            /\ IF ~Registered(wfcCmdId)
               THEN WaitForReturns /\ wfcResult' = Some(FALSE)
               ELSE IF Record(wfcCmdId).status # Running
               THEN WaitForReturns /\ wfcResult' = Some(TRUE)
               ELSE IF polls' = Max(1, max_attempts)
               THEN WaitForReturns /\ wfcResult' = Some(FALSE)
               ELSE wfcPc' = "sleep" /\ wfcResult' = None
      ]_vars

\* A call with timeout 3 returned false after three polls that found the
\* command Running.
C32_Witness ==
    /\ wfcPc = "idle"
    /\ wfcResult = Some(FALSE)
    /\ max_attempts = 3
    /\ polls = 3
    /\ Registered(wfcCmdId)
    /\ Record(wfcCmdId).status = Running

\* The reader of the stream fails to send in this step.
SendFails(st) ==
    /\ readerPc[st] = "send"
    /\ readerPc'[st] # "send"
    /\ ~outputRxLive

\* The reader of the stream takes a line that is Ok in this step.
ReadsLine(st) == readerPc[st] = "read" /\ readerPc'[st] = "send"

\* C33: a send that fails publishes nothing and loses the one event of the
\* line the reader holds: the reader is back at reading, the lines still in
\* the pipe and the output file are as they were; every line a reader takes,
\* before or after a failed send, is appended to the output file with its
\* tag; a reader ends only at the end of its stream; and once the process of
\* the command has exited the command gets a terminal status.
C33_SendFailureDropsOneEvent ==
    /\ [][\A st \in {<<1, FALSE>>, <<1, TRUE>>} :
            /\ SendFails(st) =>
                 /\ outputChan' = outputChan
                 /\ fwdGot' = fwdGot
                 /\ readerPc'[st] = "read"
                 /\ pipe' = pipe
                 /\ outputFile' = outputFile
                 /\ commands' = commands
            /\ ReadsLine(st) =>
                 outputFile'[st[1]] =
                     Append(outputFile[st[1]],
                            <<StreamTag(st[2]), Head(pipe[st])>>)
            /\ (readerPc[st] # "done" /\ readerPc'[st] = "done") =>
                 (readerPc[st] = "read" /\ pipe[st] = <<>> /\ proc[st[1]] = "reaped")
       ]_vars
    /\ (proc[1] = "reaped") ~> IsTerminal(Record(1).status)

\* The forwarding task ended before it received anything; command 1 wrote
\* two lines to stdout, both sends failed, both lines are in the output file
\* and the command is Completed.
C33_Witness ==
    /\ ~outputRxLive
    /\ Published = <<>>
    /\ emitted[<<1, FALSE>>] = <<line_80, line_dev>>
    /\ FileLines(<<1, FALSE>>) = <<line_80, line_dev>>
    /\ readerPc[<<1, FALSE>>] = "done"
    /\ Record(1).status = Completed

\* The finding is one of the findings stored for the command it names.
StoredWithOwner(f) ==
    /\ Registered(f.command_id)
    /\ \E k \in DOMAIN Record(f.command_id).findings :
          Record(f.command_id).findings[k] = f

\* C34: the findings of a command only grow, by one finding at the end of
\* the list in a step of add_finding; add_finding sends a finding only after
\* it has stored it, so every finding on the finding channel is among the
\* findings of the command it names, and the finding it sends is the one it
\* stored last.
C34_AddFindingStoresThenPublishes ==
    /\ [][/\ \A c \in CmdIds :
               /\ BeginsWith(Record(c).findings', Record(c).findings)
               /\ Len(Record(c).findings') <= Len(Record(c).findings) + 1
               /\ Len(Record(c).findings') > Len(Record(c).findings) =>
                     /\ anPc = "add"
                     /\ anPending[1].finding.command_id = c
                     /\ Record(c).findings' =
                           Append(Record(c).findings, anPending[1].finding)
          /\ Len(findingChan') > Len(findingChan) =>
               /\ findingChan' = Append(findingChan, anPending[1].finding)
               /\ LET own == Record(anPending[1].finding.command_id).findings
                  IN  own # <<>> /\ own[Len(own)] = anPending[1].finding
         ]_vars
    /\ [](\A i \in DOMAIN findingChan : StoredWithOwner(findingChan[i]))

\* The analyzer has stored and sent three findings of command 1, the last
\* of them a subdomain finding, and the command holds them in that order.
C34_Witness ==
    /\ Len(findingChan) = 3
    /\ Record(1).findings = findingChan
    /\ findingChan[1].title = title_open_ports
    /\ findingChan[3].title = title_subdomains
    /\ findingChan[3].command_id = 1

\* What the process of a task printed, as execute_command puts it together.
CapturedOutput(process) ==
    IF process = "exit_zero" THEN output_stdout ELSE output_stderr

\* C35: a task that ran the command of its action reports Completed when the
\* process exited with code zero and Failed when it exited with another code
\* or could not be started, and the result is set: to the captured output
\* whenever the process ran.
C35_StatusFollowsOutcome ==
    \A t \in DOMAIN actTasks :
        (actTasks[t].action.command # None /\ actTasks[t].pc \in {"done", "sent"})
        => /\ actTasks[t].process = "exit_zero"
                => actTasks[t].action.status = "Completed"
           /\ actTasks[t].process \in {"exit_nonzero", "not_started"}
                => actTasks[t].action.status = "Failed"
           /\ actTasks[t].action.result # None
           /\ actTasks[t].process \in {"exit_zero", "exit_nonzero"}
                => actTasks[t].action.result =
                       Some(CapturedOutput(actTasks[t].process))

\* The action has the id, the description and the command of an action that
\* was put on the follow-up channel as number n and was not finished.
SameAsReceived(action, n) ==
    \E input \in ActionInputs(n) :
        /\ input.status = "Pending"
        /\ action.id = input.id
        /\ action.description = input.description
        /\ action.command = input.command

\* The tasks that have sent their action, in the order of their admission.
SentTasks == SelectSeq(actTasks, LAMBDA task : task.pc = "sent")

\* A task of the executor sends its action in this step.
TaskSends(t) == actTasks[t].pc = "done" /\ actTasks'[t].pc = "sent"

\* C36: every action on the result channel has the id, description and
\* command of an action start has received and admitted, and its status is
\* Completed or Failed; each admitted action is sent by its task once, so the
\* channel holds one action for each task that has sent and none twice; and
\* no step changes the registry of the Command Monitor or the documented
\* findings of Auto-Documentation.
C36_ResultFrame ==
    /\ [][/\ commands' = commands
          /\ documented_findings' = documented_findings
          /\ \A t \in DOMAIN actTasks :
                TaskSends(t) => resultChan' = Append(resultChan, actTasks[t].action)
          /\ resultChan' # resultChan => \E t \in DOMAIN actTasks : TaskSends(t)
         ]_vars
    /\ [](/\ Len(resultChan) = Len(SentTasks)
          /\ \A j \in DOMAIN resultChan :
                /\ resultChan[j].status \in {"Completed", "Failed"}
                /\ resultChan[j].id <= actSeen
                /\ SameAsReceived(resultChan[j], resultChan[j].id)
                /\ \E t \in DOMAIN actTasks :
                      actTasks[t].pc = "sent" /\ actTasks[t].action = resultChan[j]
                /\ \A k \in DOMAIN resultChan :
                      resultChan[k].id = resultChan[j].id => k = j)

\* Two admitted actions have been reported, one Completed with the output of
\* its command and one Failed.
C36_Witness ==
    /\ Len(resultChan) = 2
    /\ \E j, k \in DOMAIN resultChan :
          /\ resultChan[j].status = "Completed"
          /\ resultChan[j].command = Some(command_scan_example)
          /\ resultChan[j].result = Some(output_stdout)
          /\ resultChan[k].status = "Failed"

\* C37: the loop of OutputAnalyzer::start does not end because the task of
\* Auto-Documentation has ended: with the receiver of the finding channel
\* gone, the analyzer is still in its loop, where it takes the events of the
\* output channel.
C37_AnalyzerOutlivesDocumentation ==
    (anRx # None /\ ~findingRxLive) => anPc \notin {"failed", "stopped"}

\* An analysis pass of command c is about to look through a buffer of at
\* least n lines.
PassCovers(c, n) == anPc = "analyze" /\ anEvent = c /\ Len(buffer[c]) >= n

\* C38: every line in the buffer of a command is eventually looked through
\* by an analysis pass of that command.
C38_EveryLineAnalyzed ==
    \A c \in CmdIds : \A n \in 1..MaxLines :
        (Len(buffer[c]) >= n) ~> PassCovers(c, n)

\* C39: current_executing is the number of tasks that were spawned and have
\* not sent their result yet: admitting an action adds one and the end of
\* its task takes one off.
C39_CounterCountsRunningTasks == current_executing = Cardinality(InFlight)

\* The places of the registry whose record has the id.
PlacesOf(id) == {i \in DOMAIN commands : commands[i].id = id}

\* The places of the Running records, in ascending order.
RECURSIVE RunningPlaces(_)
RunningPlaces(n) ==
    IF n = 0 THEN <<>>
    ELSE IF commands[n].status = Running
    THEN Append(RunningPlaces(n - 1), n)
    ELSE RunningPlaces(n - 1)

\* The record is the other one with nothing but results_summary changed.
SameButSummary(new, old) == [new EXCEPT !.results_summary = old.results_summary] = old

\* update_command_summary is called in this step.
SummaryCalled ==
    \/ summaryResult' # summaryResult
    \/ summaryId' # summaryId
    \/ \E i \in DOMAIN commands :
          commands'[i].results_summary # commands[i].results_summary

\* C40: the ids of the registry are pairwise distinct, and every step keeps
\* each record at its place with its id, adding at most one record at the
\* end; get_command(id) is the one record with the id, or None when there is
\* none; get_all_commands is the registry in registration order;
\* get_active_commands is, in that order, the records that are Running;
\* update_command_summary(id, s) for a registered id changes the
\* results_summary of that record to s and nothing else of the registry,
\* and for an unknown id returns an error and changes nothing.
C40_RegistryAppendOnly ==
    /\ [][/\ Len(commands') \in {Len(commands), Len(commands) + 1}
          /\ \A i \in DOMAIN commands : commands'[i].id = commands[i].id
          /\ SummaryCalled =>
               IF Registered(summaryId')
               THEN /\ summaryResult' = <<"Ok">>
                    /\ DOMAIN commands' = DOMAIN commands
                    /\ \A i \in DOMAIN commands :
                         IF commands[i].id = summaryId'
                         THEN /\ commands'[i].results_summary = Some(text_ok)
                              /\ SameButSummary(commands'[i], commands[i])
                         ELSE commands'[i] = commands[i]
               ELSE /\ summaryResult'[1] = "Err"
                    /\ commands' = commands
         ]_vars
    /\ [](/\ \A i, j \in DOMAIN commands :
                commands[i].id = commands[j].id => i = j
          /\ \A id \in 0..MaxCommands :
                IF PlacesOf(id) = {} THEN get_command(id) = None
                ELSE /\ Cardinality(PlacesOf(id)) = 1
                     /\ \A i \in PlacesOf(id) : get_command(id) = Some(commands[i])
          /\ get_all_commands = commands
          /\ get_active_commands =
                [k \in DOMAIN RunningPlaces(Len(commands)) |->
                    commands[RunningPlaces(Len(commands))[k]]])

\* Two commands are registered, the first has ended and only the second is
\* active; the summary of the second was set by a call and a later call for
\* an id that is not registered has returned an error.
C40_Witness ==
    /\ Len(commands) = 2
    /\ commands[1].status # Running
    /\ get_active_commands = <<commands[2]>>
    /\ commands[2].results_summary = Some(text_ok)
    /\ commands[1].results_summary = None
    /\ summaryId = 0
    /\ summaryResult[1] = "Err"

====
